---- MODULE Spec2Model ----
(***************************************************************************)
(* A model of the cosmetic-ingredient backend: the record store and its    *)
(* name resolver (rag/data_loader.py, supabase_client.py), the skin-type   *)
(* classifier (rag/enterprise_rag.py), the rule-based report generator     *)
(* (llm/mock_llm.py), the session store (rag/memory.py), the search        *)
(* orchestrator (rag/ingredient_search.py), the routing layer              *)
(* (api/routes.py) and the migration (migrate_to_supabase.py).             *)
(*                                                                         *)
(* A Python str is a sequence of symbols.  A symbol is one character       *)
(* ("a", " ", ",") or a fixed word that holds no separator (a skin-type    *)
(* tag, a label of the prompt, a fixed phrase of the report).  Korean      *)
(* literals of the source are written in ASCII transliteration.            *)
(***************************************************************************)
EXTENDS Integers, Sequences, FiniteSets, TLC

VARIABLES
    ingredients_data,   \* DataLoader.ingredients_data: the loaded records
    kor_index,          \* DataLoader._kor_index: None or an ordered dict
    eng_index,          \* DataLoader._eng_index: None or an ordered dict
    use_supabase,       \* DataLoader.use_supabase
    db_rows,            \* rows of the structured backend's "ingredients" table
    vector_store,       \* IngredientSearch.vector_store: None or its documents
    chat_sessions,      \* ConversationManager.chat_sessions: id -> messages
    clock,              \* datetime.now() as read by save_context
    pc,                 \* position of the request being served
    request,            \* arguments of the request being served
    response,           \* what the last completed request returned
    reports             \* the reports generated so far, with the fields they were generated from

vars == <<ingredients_data, kor_index, eng_index, use_supabase, db_rows, vector_store,
          chat_sessions, clock, pc, request, response, reports>>

(***************************************************************************)
(* Bounds of the model.                                                    *)
(***************************************************************************)
MaxRecords == 2     \* most records in the store
MaxNames == 2       \* longest list of names passed to a lookup

(***************************************************************************)
(* Python str operations.                                                  *)
(***************************************************************************)
Min(S) == CHOOSE x \in S : \A y \in S : x <= y

\* The lists of at most n elements of S.
RECURSIVE ListsUpTo(_, _)
ListsUpTo(S, n) ==
    IF n = 0 THEN {<<>>}
    ELSE LET shorter == ListsUpTo(S, n - 1)
         IN shorter \cup {Append(l, e) : l \in shorter, e \in S}

IsSpace(c) == c \in {" ", "\t", "\n"}

LowerChar(c) ==
    CASE c = "A" -> "a"
      [] c = "B" -> "b"
      [] c = "DRY" -> "dry"
      [] OTHER -> c

Lower(s) == [i \in 1..Len(s) |-> LowerChar(s[i])]

RECURSIVE LStrip(_)
LStrip(s) == IF s # <<>> /\ IsSpace(Head(s)) THEN LStrip(Tail(s)) ELSE s

RECURSIVE RStrip(_)
RStrip(s) ==
    IF s # <<>> /\ IsSpace(s[Len(s)]) THEN RStrip(SubSeq(s, 1, Len(s) - 1)) ELSE s

Strip(s) == RStrip(LStrip(s))

\* s.replace(" ", "")
RemoveSpaces(s) == SelectSeq(s, LAMBDA c : c # " ")

\* needle in hay
Contains(hay, needle) ==
    \E i \in 0..(Len(hay) - Len(needle)) :
        SubSeq(hay, i + 1, i + Len(needle)) = needle

Max(S) == CHOOSE x \in S : \A y \in S : x >= y

InSeq(x, s) == \E i \in 1..Len(s) : s[i] = x

\* list[:n]
Take(list, n) == SubSeq(list, 1, IF n < Len(list) THEN n ELSE Len(list))

\* sep.join(list)
RECURSIVE Join(_, _)
Join(list, sep) ==
    IF list = <<>> THEN <<>>
    ELSE IF Len(list) = 1 THEN list[1]
    ELSE list[1] \o sep \o Join(Tail(list), sep)

CommaSpace == <<",", " ">>

\* s.split(sep), sep one symbol
RECURSIVE Split(_, _)
Split(s, sep) ==
    IF ~InSeq(sep, s) THEN <<s>>
    ELSE LET i == Min({j \in 1..Len(s) : s[j] = sep})
         IN <<SubSeq(s, 1, i - 1)>> \o Split(SubSeq(s, i + 1, Len(s)), sep)

\* [x.strip() for x in s.split(',') if x.strip()]
SplitComma(s) ==
    LET pieces == Split(s, ",")
        stripped == [i \in 1..Len(pieces) |-> Strip(pieces[i])]
    IN SelectSeq(stripped, LAMBDA x : x # <<>>)

\* str(n) for n >= 0, one symbol a digit
DigitSymbols == <<"0", "1", "2", "3", "4", "5", "6", "7", "8", "9">>
RECURSIVE Decimal(_)
Decimal(n) ==
    IF n < 10 THEN <<DigitSymbols[n + 1]>>
    ELSE Decimal(n \div 10) \o <<DigitSymbols[(n % 10) + 1]>>

\* A description that is None (a null column of the structured backend).
NullValue == <<"<None>">>

\* The value of a tag field of a record: a list of str, a str, or None.
PyList(items) == [kind |-> "list", val |-> items]
PyStr(s) == [kind |-> "str", val |-> s]
PyNone == [kind |-> "none", val |-> <<>>]

(***************************************************************************)
(* Python dict: insertion-ordered, a sequence of [k, v] entries with       *)
(* distinct keys.  Assigning to an existing key keeps its position.        *)
(***************************************************************************)
EmptyDict == <<>>

DictKeys(d) == {d[i].k : i \in 1..Len(d)}

DictHas(d, key) == \E i \in 1..Len(d) : d[i].k = key

DictGet(d, key) == d[CHOOSE i \in 1..Len(d) : d[i].k = key].v

DictSet(d, key, val) ==
    IF DictHas(d, key)
    THEN [i \in 1..Len(d) |-> IF d[i].k = key THEN [k |-> key, v |-> val] ELSE d[i]]
    ELSE Append(d, [k |-> key, v |-> val])

\* An attribute that is None or holds a value.
None == [is_none |-> TRUE]
Some(x) == [is_none |-> FALSE, val |-> x]

\* How a call ends: it returns a value or an exception leaves it.
Returned(x) == [raised |-> FALSE, val |-> x]
Raised(e) == [raised |-> TRUE, val |-> e]

(***************************************************************************)
(* The record store: DataLoader (flat file) and supabase_client.           *)
(***************************************************************************)
\* The key of a record's name in the name index: lowercased, spaces removed.
IndexKey(name) == RemoveSpaces(Lower(name))

\* The key an input name is looked up under: trimmed first.
Normalize(name) == RemoveSpaces(Lower(Strip(name)))

\* One pass of the loop of _build_indexes over data[1..n], for one name field.
RECURSIVE BuildIndex(_, _, _)
BuildIndex(data, field, n) ==
    IF n = 0 THEN EmptyDict
    ELSE LET index == BuildIndex(data, field, n - 1)
             name == data[n][field]
         IN IF name # <<>> THEN DictSet(index, IndexKey(name), data[n]) ELSE index

BuildKorIndex(data) == BuildIndex(data, "kor_name", Len(data))
BuildEngIndex(data) == BuildIndex(data, "eng_name", Len(data))

\* FirstPartial taking the last such entry.
FirstPartial_Last(index, normalized) ==
    LET hits == {i \in 1..Len(index) :
                    Contains(index[i].k, normalized) \/ Contains(normalized, index[i].k)}
    IN IF hits = {} THEN 0 ELSE Max(hits)

\* The first entry of the index whose key contains the normalized name or is
\* contained in it: the position, 0 when there is none.
FirstPartial(index, normalized) ==
    LET hits == {i \in 1..Len(index) :
                    Contains(index[i].k, normalized) \/ Contains(normalized, index[i].k)}
    IN IF hits = {} THEN 0 ELSE Min(hits)

\* MatchName with the substring scan tried before the exact lookups.
MatchName_PartialFirst(kor, eng, name) ==
    LET normalized == Normalize(name)
        k == FirstPartial(kor, normalized)
        e == FirstPartial(eng, normalized)
    IN IF k # 0 THEN Some(kor[k].v)
       ELSE IF e # 0 THEN Some(eng[e].v)
       ELSE IF DictHas(kor, normalized) THEN Some(DictGet(kor, normalized))
       ELSE IF DictHas(eng, normalized) THEN Some(DictGet(eng, normalized))
       ELSE None

\* The body of the loop over names: the record one name resolves to.
MatchName(kor, eng, name) ==
    LET normalized == Normalize(name)
        k == FirstPartial(kor, normalized)
        e == FirstPartial(eng, normalized)
    IN IF DictHas(kor, normalized) THEN Some(DictGet(kor, normalized))
       ELSE IF DictHas(eng, normalized) THEN Some(DictGet(eng, normalized))
       ELSE IF k # 0 THEN Some(kor[k].v)
       ELSE IF e # 0 THEN Some(eng[e].v)
       ELSE None

\* The loop over names[1..n], each hit assigned to result_map[name].
RECURSIVE MatchNames(_, _, _, _)
MatchNames(kor, eng, names, n) ==
    IF n = 0 THEN EmptyDict
    ELSE LET result_map == MatchNames(kor, eng, names, n - 1)
             hit == MatchName(kor, eng, names[n])
         IN IF hit.is_none THEN result_map ELSE DictSet(result_map, names[n], hit.val)

\* A list element that is no str: name.strip() raises AttributeError on it.
NotAStr == <<"<not a str>">>

Raises(names) == \E i \in 1..Len(names) : names[i] = NotAStr

\* {item[field].lower().replace(" ", ""): item for item in data if item.get(field)},
\* from item i on, acc being the dict so far.
RECURSIVE IndexedFrom(_, _, _, _)
IndexedFrom(data, field, i, acc) ==
    IF i > Len(data) THEN acc
    ELSE IndexedFrom(data, field, i + 1,
                     IF data[i][field] # <<>>
                     THEN DictSet(acc, RemoveSpaces(Lower(data[i][field])), data[i])
                     ELSE acc)

ScanItems_NameInKey(index, normalized, i) ==
    LET hits == {j \in i..Len(index) : Contains(index[j].k, normalized)}
    IN IF hits = {} THEN None ELSE Some(index[Min(hits)].v)

\* for key, item in index.items(): the item of the first entry, from entry i
\* on, whose key holds the normalized name or is held by it (break), None
\* when the loop runs to its end (else).
RECURSIVE ScanItems(_, _, _)
ScanItems(index, normalized, i) ==
    IF i > Len(index) THEN None
    ELSE IF Contains(index[i].k, normalized) \/ Contains(normalized, index[i].k)
    THEN Some(index[i].v)
    ELSE ScanItems(index, normalized, i + 1)

\* The loop over names of supabase_client.get_ingredients_by_names, from
\* name i on: exact under the Korean names, exact under the English names,
\* the scan of the Korean names and, in its else branch, that of the English.
RECURSIVE SupabaseMatchFrom(_, _, _, _, _)
SupabaseMatchFrom(kor, eng, names, i, result_map) ==
    IF i > Len(names) THEN result_map
    ELSE LET normalized == RemoveSpaces(Lower(Strip(names[i])))
             scanned == ScanItems(kor, normalized, 1)
             hit == IF DictHas(kor, normalized) THEN Some(DictGet(kor, normalized))
                    ELSE IF DictHas(eng, normalized) THEN Some(DictGet(eng, normalized))
                    ELSE IF ~scanned.is_none THEN scanned
                    ELSE ScanItems(eng, normalized, 1)
         IN SupabaseMatchFrom(kor, eng, names, i + 1,
                              IF hit.is_none THEN result_map
                              ELSE DictSet(result_map, names[i], hit.val))

\* supabase_client.get_ingredients_by_names: every row fetched, then matched
\* in memory.  fetch_ok is false when the query raises.
\* Its own handler turns every exception into the empty mapping.
SupabaseGetIngredientsByNames(rows, fetch_ok, names) ==
    IF ~fetch_ok \/ rows = <<>> \/ Raises(names) THEN Returned(EmptyDict)
    ELSE Returned(SupabaseMatchFrom(IndexedFrom(rows, "kor_name", 1, EmptyDict),
                                    IndexedFrom(rows, "eng_name", 1, EmptyDict),
                                    names, 1, EmptyDict))

\* DataLoader._get_ingredients_from_local, given the indexes it reads.
GetIngredientsFromLocal(kor, eng, names) ==
    IF Raises(names) THEN Raised("AttributeError")
    ELSE Returned(MatchNames(kor, eng, names, Len(names)))

\* The indexes after the lazy build at the head of _get_ingredients_from_local.
KorIndexAfterLookup ==
    IF kor_index.is_none \/ eng_index.is_none
    THEN Some(BuildKorIndex(ingredients_data)) ELSE kor_index
EngIndexAfterLookup ==
    IF kor_index.is_none \/ eng_index.is_none
    THEN Some(BuildEngIndex(ingredients_data)) ELSE eng_index

\* DataLoader.get_ingredients_by_names without its exception handler.
DataLoaderGetIngredientsByNames_NoHandler(names, fetch_ok) ==
    IF use_supabase
    THEN SupabaseGetIngredientsByNames(db_rows, fetch_ok, names)
    ELSE GetIngredientsFromLocal(KorIndexAfterLookup.val, EngIndexAfterLookup.val, names)

\* DataLoader.get_ingredients_by_names: the result mapping; an exception of
\* either resolver is caught and the empty mapping returned.
DataLoaderGetIngredientsByNames(names, fetch_ok) ==
    LET found == IF use_supabase
                 THEN SupabaseGetIngredientsByNames(db_rows, fetch_ok, names)
                 ELSE GetIngredientsFromLocal(KorIndexAfterLookup.val,
                                              EngIndexAfterLookup.val, names)
    IN IF found.raised THEN Returned(EmptyDict) ELSE found

(***************************************************************************)
(* Name resolution on its own: the store is constructed over some records  *)
(* and one lookup is served.                                               *)
(***************************************************************************)
\* The names a lookup is asked for: empty, blank, exact, to be trimmed and
\* lowercased, with an inner space, longer than a key, and no str at all.
InputNames ==
    {<<>>, <<" ">>, <<"a">>, <<"A", "\t">>, <<"a", " ", "b">>, <<"a", "a">>, <<"b">>,
     NotAStr}

\* The names the records carry (an empty name is a missing one).
KorNames == {<<>>, <<"A", " ">>, <<"a", "b">>, <<"a", "\t">>}
EngNames == {<<>>, <<"a">>}

\* Record number i of a store, with the given names.
NamedRecord(i, kor, eng) ==
    [kor_name |-> kor, eng_name |-> eng, description |-> <<"d", ToString(i)>>,
     purpose |-> PyList(<<>>), good_for |-> PyList(<<>>), bad_for |-> PyList(<<>>)]

RECURSIVE NamedStores(_)
NamedStores(n) ==
    IF n = 0 THEN {<<>>}
    ELSE LET shorter == NamedStores(n - 1)
         IN shorter \cup {Append(s, NamedRecord(Len(s) + 1, kor, eng)) :
                            s \in {t \in shorter : Len(t) = n - 1},
                            kor \in KorNames, eng \in EngNames}

InitResolve ==
    /\ ingredients_data \in NamedStores(MaxRecords)
    /\ use_supabase \in BOOLEAN
    /\ db_rows = IF use_supabase THEN ingredients_data ELSE <<>>
    /\ kor_index = IF use_supabase THEN None ELSE Some(BuildKorIndex(ingredients_data))
    /\ eng_index = IF use_supabase THEN None ELSE Some(BuildEngIndex(ingredients_data))
    /\ vector_store = None
    /\ chat_sessions = <<>>
    /\ reports = {}
    /\ clock = 0
    /\ pc = "call"
    /\ request \in [names : ListsUpTo(InputNames, MaxNames)]
    /\ response = None

GetIngredientsByNames ==
    /\ pc = "call"
    /\ \E fetch_ok \in IF use_supabase THEN BOOLEAN ELSE {TRUE} :
          response' = DataLoaderGetIngredientsByNames(request.names, fetch_ok)
    /\ kor_index' = IF use_supabase THEN kor_index ELSE KorIndexAfterLookup
    /\ eng_index' = IF use_supabase THEN eng_index ELSE EngIndexAfterLookup
    /\ pc' = "done"
    /\ UNCHANGED <<ingredients_data, use_supabase, db_rows, vector_store, chat_sessions,
                   clock, request, reports>>

NextResolve == GetIngredientsByNames

SpecResolve == InitResolve /\ [][NextResolve]_vars

\* The records of the store that carry the key under their Korean (English) name.
KorExact(key) ==
    {i \in 1..Len(ingredients_data) :
        /\ ingredients_data[i].kor_name # <<>>
        /\ IndexKey(ingredients_data[i].kor_name) = key}
EngExact(key) ==
    {i \in 1..Len(ingredients_data) :
        /\ ingredients_data[i].eng_name # <<>>
        /\ IndexKey(ingredients_data[i].eng_name) = key}

\* A flat-file lookup over a list of str has returned.
LocalLookupDone == pc = "done" /\ ~use_supabase /\ ~Raises(request.names)

IndexedKeys ==
    LET data == IF use_supabase THEN db_rows ELSE ingredients_data
    IN DictKeys(BuildKorIndex(data)) \cup DictKeys(BuildEngIndex(data))

Unrelated(name) ==
    \A key \in IndexedKeys :
        ~Contains(key, Normalize(name)) /\ ~Contains(Normalize(name), key)

\* C2: get_ingredients_by_names returns a mapping and never raises; the keys
\* of the mapping are input names; a name with no exact match and no
\* substring relation to an indexed key is no key of it; the empty list gives
\* the empty mapping.
C2_UnresolvedOmitted ==
    pc = "done" =>
        /\ ~response.raised
        /\ DictKeys(response.val) \subseteq {request.names[i] : i \in 1..Len(request.names)}
        /\ \A i \in 1..Len(request.names) :
              (request.names[i] # NotAStr /\ Unrelated(request.names[i]))
                  => ~DictHas(response.val, request.names[i])
        /\ request.names = <<>> => response.val = EmptyDict

\* C2 witness: a list with one name that resolves and one that is unrelated
\* to every indexed key, answered with the first name only.
C2_Witness ==
    /\ pc = "done"
    /\ IndexedKeys # {}
    /\ Len(request.names) = 2
    /\ request.names[2] # NotAStr
    /\ Unrelated(request.names[2])
    /\ DictKeys(response.val) = {request.names[1]}

\* C19: an input name that is empty or consists only of spaces is never
\* resolved to a record: it is no key of the result mapping.
C19_BlankNameUnresolved ==
    pc = "done" =>
        \A i \in 1..Len(request.names) :
            (request.names[i] # NotAStr /\ RemoveSpaces(Strip(request.names[i])) = <<>>)
                => ~DictHas(response.val, request.names[i])

\* The entries of an index whose key contains the key or is contained in it.
Qualifying(index, key) ==
    {j \in 1..Len(index) : Contains(index[j].k, key) \/ Contains(key, index[j].k)}

\* C20: in the flat-file store, a name with no exact match resolves to the
\* record of the first entry of the Korean-name index, in insertion order,
\* whose key contains the normalized name or is contained in it; when no
\* Korean key qualifies, to the record of the first such entry of the
\* English-name index; when no key of either index qualifies it is unresolved.
C20_FirstPartialHit ==
    LocalLookupDone =>
        \A i \in 1..Len(request.names) :
            LET name == request.names[i]
                key == Normalize(name)
                kor == kor_index.val
                eng == eng_index.val
            IN (~DictHas(kor, key) /\ ~DictHas(eng, key)) =>
                  IF Qualifying(kor, key) # {}
                  THEN /\ DictHas(response.val, name)
                       /\ DictGet(response.val, name) = kor[Min(Qualifying(kor, key))].v
                  ELSE IF Qualifying(eng, key) # {}
                  THEN /\ DictHas(response.val, name)
                       /\ DictGet(response.val, name) = eng[Min(Qualifying(eng, key))].v
                  ELSE ~DictHas(response.val, name)

\* C20 witness: a name with no exact match for which two entries of the
\* Korean-name index qualify, holding different records, resolved to the
\* record of the first.
C20_Witness ==
    /\ LocalLookupDone
    /\ \E i \in 1..Len(request.names) :
          LET name == request.names[i]
              key == Normalize(name)
              kor == kor_index.val
          IN /\ key # <<>>
             /\ ~DictHas(kor, key)
             /\ ~DictHas(eng_index.val, key)
             /\ Cardinality(Qualifying(kor, key)) = 2
             /\ kor[1].v # kor[2].v
             /\ DictHas(response.val, name)
             /\ DictGet(response.val, name) = kor[1].v

(***************************************************************************)
(* The skin-type classifier: EnterpriseRAG.analyze_product_ingredients.    *)
(***************************************************************************)
DescLimit == 100    \* description[:100]
TopPurposes == 3    \* most_common(3)

NormalizedSkinType_Raw(skin_type) == skin_type

\* skin_type_map.get(skin_type, skin_type.lower()); the keys are geonseong,
\* jiseong, mingamseong, yeodeureumseong, bokhapseong and jungseong.
NormalizedSkinType(skin_type) ==
    CASE skin_type = <<"geonseong">> -> <<"dry">>
      [] skin_type = <<"jiseong">> -> <<"oily">>
      [] skin_type = <<"mingamseong">> -> <<"sensitive">>
      [] skin_type = <<"yeodeureumseong">> -> <<"acne">>
      [] skin_type = <<"bokhapseong">> -> <<"combination">>
      [] skin_type = <<"jungseong">> -> <<"normal">>
      [] OTHER -> Lower(skin_type)

\* info.get(field, []) or [], a str split at its commas.
TagList(value) == IF value.kind = "str" THEN SplitComma(value.val) ELSE value.val

\* info.get('kor_name') or info.get('eng_name') or ingredient_name
DisplayName(entry) ==
    IF entry.v.kor_name # <<>> THEN entry.v.kor_name
    ELSE IF entry.v.eng_name # <<>> THEN entry.v.eng_name
    ELSE entry.k

\* description[:100] + "..." if len(description) > 100 else description
ShortDesc(description) ==
    IF Len(description) > DescLimit
    THEN SubSeq(description, 1, DescLimit) \o <<"...">>
    ELSE description

NoPurposeText == <<"gineung jeongbo eopseum">>
DirectCautionText(skin_type) == skin_type \o <<" pibue juuiga piryohamnida.">>
GeneralCautionText == <<"ilbu pibue jageugeul jul su itseumnida.">>

\* sensitive, mingamseong, acne, yeodeureum
GeneralCautionTags == <<<<"sensitive">>, <<"mingamseong">>, <<"acne">>, <<"yeodeureum">>>>

MatchesSkin(tags, skin_type) ==
    InSeq(NormalizedSkinType(skin_type), tags) \/ InSeq(skin_type, tags)

HasGeneralCaution_SensitiveOnly(tags) == InSeq(<<"sensitive">>, tags)

HasGeneralCaution(tags) ==
    \E i \in 1..Len(GeneralCautionTags) : InSeq(GeneralCautionTags[i], tags)

GoodMatch_LookupKey(entry) ==
    LET purpose == TagList(entry.v.purpose)
    IN [name |-> entry.k,
        purpose |-> IF purpose # <<>> THEN Join(purpose, CommaSpace) ELSE NoPurposeText]

GoodMatch(entry) ==
    LET purpose == TagList(entry.v.purpose)
    IN [name |-> DisplayName(entry),
        purpose |-> IF purpose # <<>> THEN Join(purpose, CommaSpace) ELSE NoPurposeText]

BadMatch(entry, fallback) ==
    LET short_desc == ShortDesc(entry.v.description)
    IN [name |-> DisplayName(entry),
        description |-> IF short_desc # <<>> THEN short_desc ELSE fallback]

NoMatches ==
    [good_matches |-> <<>>, bad_matches |-> <<>>, good_names |-> <<>>, bad_names |-> <<>>,
     raised |-> FALSE]

\* One pass of the loop over ingredient_info_map.items(); len(description)
\* raises TypeError when a bad match is to be built from a None description.
ClassifyEntry(acc, entry, skin_type) ==
    LET is_good == MatchesSkin(TagList(entry.v.good_for), skin_type)
        bad_for == TagList(entry.v.bad_for)
        is_bad == \/ MatchesSkin(bad_for, skin_type)
                  \/ /\ HasGeneralCaution(bad_for)
                     /\ ~InSeq(DisplayName(entry), acc.bad_names)
        fallback == IF MatchesSkin(bad_for, skin_type)
                    THEN DirectCautionText(skin_type) ELSE GeneralCautionText
    IN [good_matches |-> IF is_good THEN Append(acc.good_matches, GoodMatch(entry))
                         ELSE acc.good_matches,
        good_names |-> IF is_good THEN Append(acc.good_names, DisplayName(entry))
                       ELSE acc.good_names,
        bad_matches |-> IF is_bad THEN Append(acc.bad_matches, BadMatch(entry, fallback))
                        ELSE acc.bad_matches,
        bad_names |-> IF is_bad THEN Append(acc.bad_names, DisplayName(entry))
                      ELSE acc.bad_names,
        raised |-> acc.raised \/ (is_bad /\ entry.v.description = NullValue)]

\* The loop over the first n entries of ingredient_info_map.
RECURSIVE Classify(_, _, _)
Classify(info_map, skin_type, n) ==
    IF n = 0 THEN NoMatches
    ELSE ClassifyEntry(Classify(info_map, skin_type, n - 1), info_map[n], skin_type)

\* all_purposes: the purposes of the first n entries, in order.
RECURSIVE AllPurposes(_, _)
AllPurposes(info_map, n) ==
    IF n = 0 THEN <<>>
    ELSE AllPurposes(info_map, n - 1) \o TagList(info_map[n].v.purpose)

\* Counter(items): the counts in order of first occurrence.
RECURSIVE Counter(_, _)
Counter(items, n) ==
    IF n = 0 THEN EmptyDict
    ELSE LET counts == Counter(items, n - 1)
         IN DictSet(counts, items[n],
                    IF DictHas(counts, items[n]) THEN DictGet(counts, items[n]) + 1 ELSE 1)

\* Counter.most_common(n): by count, largest first, ties in order of first occurrence.
RECURSIVE MostCommon(_, _)
MostCommon(counts, n) ==
    IF n = 0 \/ counts = <<>> THEN <<>>
    ELSE LET best == Min({i \in 1..Len(counts) :
                            \A j \in 1..Len(counts) : counts[j].v <= counts[i].v})
             others == [i \in 1..(Len(counts) - 1) |->
                            IF i < best THEN counts[i] ELSE counts[i + 1]]
         IN <<counts[best]>> \o MostCommon(others, n - 1)

\* ", ".join(f"{p} ({c}hoe)" for p, c in purpose_counts.most_common(3))
CommonPurposesStr(all_purposes) ==
    LET top == MostCommon(Counter(all_purposes, Len(all_purposes)), TopPurposes)
    IN Join([i \in 1..Len(top) |->
                top[i].k \o <<" ", "(">> \o Decimal(top[i].v) \o <<"hoe", ")">>],
            CommaSpace)

(***************************************************************************)
(* The analysis prompt (analyze_product_ingredients) and the rule-based    *)
(* report generator that reads it back (MockLLM).                          *)
(***************************************************************************)
ReportTitle == <<"jonghap bunseok", " ripoteu", " saengseong">>
SkinLabel == "sayongja pibu taip:"
GoodLabel == "joeun seongbun mogrok:"
BadLabel == "juui seongbun mogrok (ilbanjeok poham):"
PlainBadLabel == "juui seongbun mogrok:"
PurposeLabel == "juyo seongbun mogjeok):"
NoneWord == "eopseum"
UnknownSkin == <<"al su eomneun">>
MixedPurpose == <<"bokhapjeogin">>

\* The f-string of analyze_product_ingredients.
AnalysisPrompt(skin_type, good_names, bad_names, common_purposes_str) ==
    ReportTitle \o <<"\n">>
    \o <<SkinLabel, " ">> \o skin_type \o <<"\n">>
    \o <<GoodLabel, " ">>
    \o (IF good_names # <<>> THEN Join(good_names, CommaSpace) ELSE <<NoneWord>>)
    \o <<"\n">>
    \o <<BadLabel, " ">>
    \o (IF bad_names # <<>> THEN Join(bad_names, CommaSpace) ELSE <<NoneWord>>)
    \o <<"\n">>
    \o <<"chamgoyong (", PurposeLabel, " ">> \o common_purposes_str \o <<"\n">>

\* The group of label\s*([^\n]+) with the label at position i of the text:
\* \s* gives whitespace back until one symbol that is no newline follows.
CaptureAt(text, i) ==
    LET after == {j \in (i + 1)..Len(text) : ~IsSpace(text[j])}
        stop == IF after = {} THEN Len(text) + 1 ELSE Min(after)
        starts == {q \in (i + 1)..stop : q <= Len(text) /\ text[q] # "\n"}
    IN IF starts = {} THEN None
       ELSE LET from == Max(starts)
                to == Max({e \in from..Len(text) :
                            \A x \in from..e : text[x] # "\n"})
            IN Some(SubSeq(text, from, to))

\* re.search(label + r'\s*([^\n]+)', text): the group of the leftmost match.
Capture(text, label) ==
    LET found == {i \in 1..Len(text) : text[i] = label /\ ~CaptureAt(text, i).is_none}
    IN IF found = {} THEN None ELSE CaptureAt(text, Min(found))

\* re.search(r'\[.*?\]e joeun seongbun mogrok:\s*([^\n]+)', text)
BracketCapture(text) ==
    LET ends(i) == {k \in (i + 1)..(Len(text) - 1) :
                      /\ text[k] = "]e "
                      /\ text[k + 1] = GoodLabel
                      /\ \A x \in i..k : text[x] # "\n"
                      /\ ~CaptureAt(text, k + 1).is_none}
        opens == {i \in 1..Len(text) : text[i] = "[" /\ ends(i) # {}}
    IN IF opens = {} THEN None ELSE CaptureAt(text, Min(ends(Min(opens))) + 1)

\* group(1).strip() if match else default
StrippedOr(match, default) == IF match.is_none THEN default ELSE Strip(match.val)

ExtractSkinType(prompt) == StrippedOr(Capture(prompt, SkinLabel), UnknownSkin)

\* A list line that reads "eopseum" is the empty list.
ExtractGoodNames(prompt) ==
    LET bracket == BracketCapture(prompt)
        good_match_str == IF bracket.is_none THEN Capture(prompt, GoodLabel) ELSE bracket
        good_names == StrippedOr(good_match_str, <<>>)
    IN IF good_names = <<NoneWord>> THEN <<>> ELSE good_names

ExtractBadNames(prompt) ==
    LET first == Capture(prompt, BadLabel)
        bad_match_str == IF first.is_none THEN Capture(prompt, PlainBadLabel) ELSE first
        bad_names == StrippedOr(bad_match_str, <<>>)
    IN IF bad_names = <<NoneWord>> THEN <<>> ELSE bad_names

\* The class [a-zA-Z ga-hih \s]: letters and whitespace.
IsLetterOrSpace(c) ==
    /\ c \notin {",", "(", ")", "[", "]e ", "-", "...", "'"}
    /\ ~InSeq(c, DigitSymbols)

\* The text ends a match of \(\d+hoe\) that starts at position j.
IsCountAt(text, j) ==
    /\ j <= Len(text) /\ text[j] = "("
    /\ \E e \in (j + 1)..(Len(text) - 2) :
          /\ \A x \in (j + 1)..e : InSeq(text[x], DigitSymbols)
          /\ text[e + 1] = "hoe"
          /\ text[e + 2] = ")"

\* re.search(r'([a-zA-Z ga-hih \s]+)\s*\(\d+hoe\)', purposes): the group of
\* the leftmost match, a longest run of letters and whitespace that a count follows.
FirstPurpose(purposes) ==
    LET runs == {i \in 1..Len(purposes) :
                    \E j \in (i + 1)..Len(purposes) :
                        /\ \A x \in i..(j - 1) : IsLetterOrSpace(purposes[x])
                        /\ IsCountAt(purposes, j)}
    IN IF runs = {} THEN None
       ELSE LET i == Min(runs)
                j == Min({x \in (i + 1)..Len(purposes) : ~IsLetterOrSpace(purposes[x])})
            IN Some(SubSeq(purposes, i, j - 1))

\* purpose_map.get(purpose_name, purpose_name)
PurposeLabelOf(purpose_name) ==
    CASE purpose_name = <<"moisturizer">> -> <<"boseup">>
      [] purpose_name = <<"antioxidant">> -> <<"hangsanhwa">>
      [] purpose_name = <<"exfoliant">> -> <<"gakjil jegeo">>
      [] purpose_name = <<"fragrance">> -> <<"hyangnyo">>
      [] purpose_name = <<"preservative">> -> <<"bojon">>
      [] purpose_name = <<"emulsifier">> -> <<"yuhwa">>
      [] OTHER -> purpose_name

MainPurpose(prompt) ==
    LET purpose_match == Capture(prompt, PurposeLabel)
        first_purpose_match ==
            IF purpose_match.is_none THEN None ELSE FirstPurpose(Strip(purpose_match.val))
    IN IF first_purpose_match.is_none THEN MixedPurpose
       ELSE PurposeLabelOf(Lower(Strip(first_purpose_match.val)))

PurposeSentence(main_purpose) ==
    <<"i hwajangpumeun(neun) '">> \o main_purpose
    \o <<"'e jungjeomeul dun jepumeuro boimnida.">>

GoodSentence_NoEtc(skin_type, good_names) ==
    <<"teukhi ">> \o skin_type \o <<" pibue joeun ">>
    \o Join(Take(SplitComma(good_names), 3), CommaSpace)
    \o <<" seongbuni pohamdoeeo itseumnida.">>

GoodSentence(skin_type, good_names) ==
    LET all == SplitComma(good_names)
        good_names_short ==
            Join(Take(all, 3), CommaSpace) \o (IF Len(all) > 3 THEN <<" deung">> ELSE <<>>)
    IN <<"teukhi ">> \o skin_type \o <<" pibue joeun ">> \o good_names_short
       \o <<" seongbuni pohamdoeeo itseumnida.">>

BadSentence(bad_names) ==
    <<"daman, ">> \o Join(Take(SplitComma(bad_names), 2), CommaSpace)
    \o <<" seongbuneun ilbu pibue jageugeul jul su isseuni chamgohaseyo.">>

GoodClosing(skin_type) ==
    <<"jeonbanjeogeuro ">> \o skin_type \o <<" pibue joeun jepumeuro pyeonggadoemnida.">>
MixedClosing == <<"sayong si pibu baneungeul juui gipge gwanchalhasigi baramnida.">>
PlainClosing == <<"gaeinjeogin pibu baneungeul hwaginhamyeo sayonghasigi baramnida.">>

ClosingSentence_BadFirst(skin_type, good_names, bad_names) ==
    IF bad_names # <<>> THEN MixedClosing
    ELSE IF good_names # <<>> THEN GoodClosing(skin_type)
    ELSE PlainClosing

\* The closing sentence, by whether the two extracted lists are non-empty.
ClosingSentence(skin_type, good_names, bad_names) ==
    IF good_names # <<>> /\ bad_names = <<>> THEN GoodClosing(skin_type)
    ELSE IF good_names # <<>> /\ bad_names # <<>> THEN MixedClosing
    ELSE PlainClosing

\* report_parts of _generate_product_analysis
ReportParts(prompt) ==
    LET skin_type == ExtractSkinType(prompt)
        good_names == ExtractGoodNames(prompt)
        bad_names == ExtractBadNames(prompt)
    IN <<PurposeSentence(MainPurpose(prompt))>>
       \o (IF good_names # <<>> THEN <<GoodSentence(skin_type, good_names)>> ELSE <<>>)
       \o (IF bad_names # <<>> THEN <<BadSentence(bad_names)>> ELSE <<>>)
       \o <<ClosingSentence(skin_type, good_names, bad_names)>>

\* MockLLM._generate_product_analysis
GenerateProductAnalysis(prompt) == Join(ReportParts(prompt), <<" ">>)

NotFoundAnswer == <<"haedang seongbune daehan jeongboreul chajeul su eopseumnida.">>

LlmCall_Remembering(prompt) ==
    IF chat_sessions # EmptyDict THEN NotFoundAnswer
    ELSE GenerateProductAnalysis(prompt)

\* MockLLM._call
LlmCall(prompt) ==
    IF Contains(prompt, <<"jonghap bunseok", " ripoteu">>)
       \/ Contains(prompt, <<"jonghap bunseok">>)
    THEN GenerateProductAnalysis(prompt)
    ELSE NotFoundAnswer

NotFoundReport == <<"seongbun jeongboreul chajeul su eopseo bunseokhal su eopseumnida.">>
NoLenMessage == "object of type 'NoneType' has no len()"
ErrorReport(message) == <<"bunseok jung oryuga balsaenghaetseumnida: ", message>>

\* AnalysisRun without the early return on an empty mapping.
AnalysisRun_NoEmptyCheck(ingredient_info_map, skin_type) ==
    LET matches == Classify(ingredient_info_map, skin_type, Len(ingredient_info_map))
        all_purposes == AllPurposes(ingredient_info_map, Len(ingredient_info_map))
        common_purposes_str == CommonPurposesStr(all_purposes)
        analysis_report == LlmCall(AnalysisPrompt(skin_type, matches.good_names,
                                                  matches.bad_names, common_purposes_str))
    IN [response |-> [analysis_report |-> analysis_report,
                      good_matches |-> matches.good_matches,
                      bad_matches |-> matches.bad_matches, success |-> TRUE],
        generated |-> {}]

\* EnterpriseRAG.analyze_product_ingredients, given the mapping the record
\* store resolved the ingredients to: the response, and the report the
\* generator was invoked for with the four fields of its prompt.
AnalysisRun(ingredient_info_map, skin_type) ==
    LET matches == Classify(ingredient_info_map, skin_type, Len(ingredient_info_map))
        all_purposes == AllPurposes(ingredient_info_map, Len(ingredient_info_map))
        common_purposes_str == CommonPurposesStr(all_purposes)
        analysis_prompt == AnalysisPrompt(skin_type, matches.good_names, matches.bad_names,
                                          common_purposes_str)
        analysis_report == LlmCall(analysis_prompt)
    IN IF ingredient_info_map = EmptyDict
       THEN [response |-> [analysis_report |-> NotFoundReport, good_matches |-> <<>>,
                           bad_matches |-> <<>>, success |-> FALSE],
             generated |-> {}]
       ELSE IF matches.raised
       THEN [response |-> [analysis_report |-> ErrorReport(NoLenMessage),
                           good_matches |-> <<>>, bad_matches |-> <<>>, success |-> FALSE],
             generated |-> {}]
       ELSE [response |-> [analysis_report |-> analysis_report,
                           good_matches |-> matches.good_matches,
                           bad_matches |-> matches.bad_matches, success |-> TRUE],
             generated |-> {[names |-> [i \in 1..Len(ingredient_info_map) |->
                                           ingredient_info_map[i].k],
                             fields |-> [skin_type |-> skin_type,
                                         good_names |-> matches.good_names,
                                         bad_names |-> matches.bad_names,
                                         common_purposes_str |-> common_purposes_str],
                             report |-> analysis_report]}]

(***************************************************************************)
(* Product analysis on its own: a flat-file store is constructed over some *)
(* records and one analysis is served.                                     *)
(***************************************************************************)
Dry == <<"dry">>
LongDescription == [i \in 1..(DescLimit + 1) |-> "x"]

\* What a record says beside its names.
Profiles ==
    { [good_for |-> PyList(<<Dry>>), bad_for |-> PyList(<<>>),
       purpose |-> PyList(<<<<"moisturizer">>>>), description |-> <<"d">>],
      [good_for |-> PyList(<<>>), bad_for |-> PyList(<<Dry>>),
       purpose |-> PyList(<<>>), description |-> <<>>],
      [good_for |-> PyList(<<<<"geonseong">>>>), bad_for |-> PyList(<<<<"sensitive">>>>),
       purpose |-> PyList(<<<<"antioxidant">>>>), description |-> <<>>],
      [good_for |-> PyStr(<<"dry", ",", " ", "oily">>), bad_for |-> PyStr(<<"acne">>),
       purpose |-> PyStr(<<"moisturizer", ",", "exfoliant">>), description |-> <<"d">>],
      [good_for |-> PyList(<<<<"DRY">>>>), bad_for |-> PyList(<<Dry, <<"mingamseong">>>>),
       purpose |-> PyList(<<<<"antioxidant">>, <<"moisturizer">>, <<"antioxidant">>>>),
       description |-> LongDescription],
      [good_for |-> PyList(<<>>), bad_for |-> PyList(<<>>),
       purpose |-> PyList(<<>>), description |-> <<"d">>] }

\* The names of the records: two records may share a Korean name.
NameShapes ==
    { [kor_name |-> <<"a">>, eng_name |-> <<"x">>],
      [kor_name |-> <<"a">>, eng_name |-> <<"y">>],
      [kor_name |-> <<>>, eng_name |-> <<"y">>] }

ProfiledRecord(shape, profile) ==
    [kor_name |-> shape.kor_name, eng_name |-> shape.eng_name,
     description |-> profile.description, purpose |-> profile.purpose,
     good_for |-> profile.good_for, bad_for |-> profile.bad_for]

ProfiledStores ==
    ListsUpTo({ProfiledRecord(shape, profile) : shape \in NameShapes, profile \in Profiles},
              MaxRecords)

IngredientNames == {<<"a">>, <<"x">>, <<"y">>, <<"q">>}
SkinTypes == {<<"geonseong">>, <<"mingamseong">>, <<"dry">>, <<"DRY">>, <<"oily">>}

InitAnalyze ==
    /\ ingredients_data \in ProfiledStores
    /\ use_supabase = FALSE
    /\ db_rows = <<>>
    /\ kor_index = Some(BuildKorIndex(ingredients_data))
    /\ eng_index = Some(BuildEngIndex(ingredients_data))
    /\ vector_store = None
    /\ chat_sessions = <<>>
    /\ reports = {}
    /\ clock = 0
    /\ pc = "call"
    /\ request \in [ingredients : ListsUpTo(IngredientNames, MaxNames), skin_type : SkinTypes]
    /\ response = None

AnalyzeProductIngredients ==
    /\ pc = "call"
    /\ \E fetch_ok \in IF use_supabase THEN BOOLEAN ELSE {TRUE} :
          LET run == AnalysisRun(
                         DataLoaderGetIngredientsByNames(request.ingredients, fetch_ok).val,
                         request.skin_type)
          IN /\ response' = Returned(run.response)
             /\ reports' = reports \cup run.generated
    /\ kor_index' = IF use_supabase THEN kor_index ELSE KorIndexAfterLookup
    /\ eng_index' = IF use_supabase THEN eng_index ELSE EngIndexAfterLookup
    /\ pc' = "done"
    /\ UNCHANGED <<ingredients_data, use_supabase, db_rows, vector_store, chat_sessions,
                   clock, request>>

NextAnalyze == AnalyzeProductIngredients

SpecAnalyze == InitAnalyze /\ [][NextAnalyze]_vars

\* The mapping the analysis that has returned classified.
Resolved == DataLoaderGetIngredientsByNames(request.ingredients, TRUE).val

AnalysisServed == pc = "done" /\ response.val.success

\* The entries of the resolved mapping whose tag field carries one of the tags.
EntriesWith(field, tags) ==
    {i \in 1..Len(Resolved) : \E t \in tags : InSeq(t, TagList(Resolved[i].v[field]))}

\* The names the bad matches of the response carry.
BadMatchNames ==
    {response.val.bad_matches[k].name : k \in 1..Len(response.val.bad_matches)}

\* The skin-type table as the specification lists it.
CanonicalTags ==
    { <<<<"geonseong">>, <<"dry">>>>, <<<<"jiseong">>, <<"oily">>>>,
      <<<<"mingamseong">>, <<"sensitive">>>>, <<<<"yeodeureumseong">>, <<"acne">>>>,
      <<<<"bokhapseong">>, <<"combination">>>>, <<<<"jungseong">>, <<"normal">>>> }
IsTableKey(skin_type) == \E p \in CanonicalTags : p[1] = skin_type
MappedTag(skin_type) == (CHOOSE p \in CanonicalTags : p[1] = skin_type)[2]

\* The good matches and the bad-match names an analysis gives when tags are
\* the match tags of its skin type.
MatchedBy(tags) ==
    /\ Len(response.val.good_matches) = Cardinality(EntriesWith("good_for", tags))
    /\ BadMatchNames =
          {DisplayName(Resolved[i]) :
              i \in EntriesWith("bad_for", tags)
                    \cup {j \in 1..Len(Resolved) :
                            HasGeneralCaution(TagList(Resolved[j].v.bad_for))}}

\* C3 (as stated): a skin type that is a key of the table is matched by its
\* mapped canonical tag; every other skin type is matched by the raw string
\* unchanged.
C3_RawTagUnchanged ==
    AnalysisServed =>
        MatchedBy(IF IsTableKey(request.skin_type)
                  THEN {MappedTag(request.skin_type), request.skin_type}
                  ELSE {request.skin_type})

\* C3 (amended): a skin type that is a key of the table is matched by its
\* mapped canonical tag; every other skin type is matched by its lowercased
\* string, and by the raw string as well.
C3_LoweredTag ==
    AnalysisServed =>
        MatchedBy(IF IsTableKey(request.skin_type)
                  THEN {MappedTag(request.skin_type), request.skin_type}
                  ELSE {Lower(request.skin_type), request.skin_type})

\* C3 witness: a skin type outside the table that is not lowercase, and a
\* record good for its lowercased form only, reported as a good match.
C3_Witness ==
    /\ AnalysisServed
    /\ ~IsTableKey(request.skin_type)
    /\ Lower(request.skin_type) # request.skin_type
    /\ EntriesWith("good_for", {request.skin_type}) = {}
    /\ EntriesWith("good_for", {Lower(request.skin_type)}) # {}
    /\ Len(response.val.good_matches) = Cardinality(EntriesWith("good_for", {Lower(request.skin_type)}))

\* The entries of the resolved mapping that are good for the skin type.
GoodEntries ==
    EntriesWith("good_for", {NormalizedSkinType(request.skin_type), request.skin_type})

\* The k-th smallest element of a set of numbers.
KthOf(S, k) == CHOOSE i \in S : Cardinality({j \in S : j < i}) = k - 1

ExpectedGoodMatch(entry) ==
    [name |-> IF entry.v.kor_name # <<>> THEN entry.v.kor_name
              ELSE IF entry.v.eng_name # <<>> THEN entry.v.eng_name
              ELSE entry.k,
     purpose |-> IF TagList(entry.v.purpose) = <<>> THEN NoPurposeText
                 ELSE Join(TagList(entry.v.purpose), <<",", " ">>)]

C5_NoDuplicateBadNames ==
    pc = "done" =>
        \A i, j \in 1..Len(response.val.bad_matches) :
            i # j => response.val.bad_matches[i].name # response.val.bad_matches[j].name

\* C11: when no input name resolves to a record the analysis returns
\* success=false with the fixed not-found report and empty good and bad
\* matches; it never returns success=true over an empty resolved mapping; and
\* the classification of the empty mapping gives no good and no bad match.
C11_NothingResolved ==
    pc = "done" =>
        /\ Resolved = EmptyDict =>
              response.val = [analysis_report |-> NotFoundReport, good_matches |-> <<>>,
                              bad_matches |-> <<>>, success |-> FALSE]
        /\ response.val.success => Resolved # EmptyDict
        /\ LET matches == Classify(EmptyDict, request.skin_type, 0)
           IN matches.good_matches = <<>> /\ matches.bad_matches = <<>>

\* C11 witness: a store with records is asked for two names, neither of which
\* resolves, and answers with the not-found report.
C11_Witness ==
    /\ pc = "done"
    /\ ingredients_data # <<>>
    /\ Len(request.ingredients) = 2
    /\ Resolved = EmptyDict
    /\ ~response.val.success
    /\ response.val.analysis_report = NotFoundReport

\* The bad_for tags of entry i of the resolved mapping.
BadForOf(i) == TagList(Resolved[i].v.bad_for)

\* Entry i is bad for the skin type itself: by its canonical tag or raw.
DirectlyBad(i) ==
    InSeq(NormalizedSkinType(request.skin_type), BadForOf(i))
        \/ InSeq(request.skin_type, BadForOf(i))

\* Entry i carries one of the four general-caution tags.
GenerallyBad(i) ==
    \E tag \in {<<"sensitive">>, <<"mingamseong">>, <<"acne">>, <<"yeodeureum">>} :
        InSeq(tag, BadForOf(i))

\* Entry i is to be emitted as a bad match: directly, or by the general
\* caution when no earlier emitted entry has its display name.
RECURSIVE EmittedBad(_)
EmittedBad(i) ==
    \/ DirectlyBad(i)
    \/ /\ GenerallyBad(i)
       /\ \A j \in 1..(i - 1) :
             ~(EmittedBad(j) /\ DisplayName(Resolved[j]) = DisplayName(Resolved[i]))

BadEntries == {i \in 1..Len(Resolved) : EmittedBad(i)}

\* C21: an entry of the resolved mapping whose bad_for holds neither the
\* canonical tag nor the raw skin type but one of the general-caution tags is
\* emitted as a bad match whatever the skin type, unless its display name was
\* emitted as a bad match before, with its description or the generic
\* fallback text; an entry whose bad_for holds neither the skin-type tag nor
\* a general-caution tag is not emitted: the bad matches are those of the
\* entries to be emitted, one each, in the order of the mapping.
C21_GeneralCaution ==
    AnalysisServed =>
        /\ Len(response.val.bad_matches) = Cardinality(BadEntries)
        /\ \A k \in 1..Cardinality(BadEntries) :
              LET i == KthOf(BadEntries, k)
                  match == response.val.bad_matches[k]
              IN /\ match.name = DisplayName(Resolved[i])
                 /\ (~DirectlyBad(i) /\ Resolved[i].v.description = <<>>)
                       => match.description = <<"ilbu pibue jageugeul jul su itseumnida.">>

\* C21 witness: of two entries with the same display name, neither bad for
\* the skin type itself and both under the general caution, the first alone
\* is emitted, with the generic fallback text.
C21_Witness ==
    /\ AnalysisServed
    /\ Len(Resolved) = 2
    /\ \A i \in {1, 2} : ~DirectlyBad(i) /\ GenerallyBad(i)
    /\ DisplayName(Resolved[1]) = DisplayName(Resolved[2])
    /\ Len(response.val.bad_matches) = 1
    /\ response.val.bad_matches[1].description = GeneralCautionText

(***************************************************************************)
(* Report generation on its own: the four fields the analysis hands over   *)
(* are written into the prompt and the generator is invoked on it.         *)
(***************************************************************************)
MaxGood == 4        \* longest list of good names handed to the generator
MaxBad == 3         \* longest list of bad names handed to the generator

GoodNamePool == {<<"a">>, <<"b">>, <<NoneWord>>}
BadNamePool == {<<"c">>, <<NoneWord>>}
ReportSkinTypes == {<<"geonseong">>, <<"DRY">>, <<>>}
PurposePool ==
    { <<>>, <<<<"moisturizer">>>>,
      <<<<"serum">>, <<"antioxidant">>, <<"antioxidant">>>>,
      <<<<"anti", "-", "aging">>>> }

InitReport ==
    /\ ingredients_data = <<>>
    /\ use_supabase = FALSE
    /\ db_rows = <<>>
    /\ kor_index = None
    /\ eng_index = None
    /\ vector_store = None
    /\ chat_sessions = <<>>
    /\ reports = {}
    /\ clock = 0
    /\ pc = "call"
    /\ request \in [skin_type : ReportSkinTypes,
                    good_names : ListsUpTo(GoodNamePool, MaxGood),
                    bad_names : ListsUpTo(BadNamePool, MaxBad),
                    all_purposes : PurposePool]
    /\ response = None

\* The prompt analyze_product_ingredients writes for the request.
RequestPrompt ==
    AnalysisPrompt(request.skin_type, request.good_names, request.bad_names,
                   CommonPurposesStr(request.all_purposes))

\* self.llm.invoke(analysis_prompt)
InvokeLlm ==
    /\ pc = "call"
    /\ response' = Returned(LlmCall(RequestPrompt))
    /\ reports' = reports \cup
          {[names |-> <<>>,
            fields |-> [skin_type |-> request.skin_type, good_names |-> request.good_names,
                        bad_names |-> request.bad_names,
                        common_purposes_str |-> CommonPurposesStr(request.all_purposes)],
            report |-> LlmCall(RequestPrompt)]}
    /\ pc' = "done"
    /\ UNCHANGED <<ingredients_data, kor_index, eng_index, use_supabase, db_rows,
                   vector_store, chat_sessions, clock, request>>

NextReport == InvokeLlm

SpecReport == InitReport /\ [][NextReport]_vars

EndsWith(s, t) == Len(t) <= Len(s) /\ SubSeq(s, Len(s) - Len(t) + 1, Len(s)) = t

\* C6: the closing sentence of the report is decided by whether the good
\* names and the bad names the generator reads are non-empty, and by nothing
\* else: good and no bad gives the good-product sentence for the skin type,
\* good and bad the observe-carefully sentence, no good the check-your-own-
\* reaction sentence.
C6_ClosingByTable ==
    pc = "done" =>
        LET good == ExtractGoodNames(RequestPrompt) # <<>>
            bad == ExtractBadNames(RequestPrompt) # <<>>
            closing ==
                IF good /\ ~bad
                THEN <<"jeonbanjeogeuro ">> \o ExtractSkinType(RequestPrompt)
                     \o <<" pibue joeun jepumeuro pyeonggadoemnida.">>
                ELSE IF good /\ bad
                THEN <<"sayong si pibu baneungeul juui gipge gwanchalhasigi baramnida.">>
                ELSE <<"gaeinjeogin pibu baneungeul hwaginhamyeo sayonghasigi baramnida.">>
        IN /\ ~response.raised
           /\ EndsWith(response.val, <<" ">> \o closing)

\* C6 witness: good names and no bad names were handed over, and the report
\* closes with the good-product sentence for the skin type.
C6_Witness ==
    /\ pc = "done"
    /\ request.skin_type = <<"geonseong">>
    /\ Len(request.good_names) = 2
    /\ request.bad_names = <<>>
    /\ EndsWith(response.val, <<" ", "jeonbanjeogeuro ", "geonseong",
                                " pibue joeun jepumeuro pyeonggadoemnida.">>)

StartsWith(s, t) == Len(t) <= Len(s) /\ SubSeq(s, 1, Len(t)) = t

\* The purpose summary of the request: its tags by count, most frequent first.
PurposeSummary ==
    MostCommon(Counter(request.all_purposes, Len(request.all_purposes)), TopPurposes)

\* C22: the report opens with the main-purpose sentence for the single most
\* frequent purpose tag, the first entry of the purpose summary: the label
\* the fixed dictionary gives the tag when it holds it, the tag itself
\* verbatim otherwise, and the default phrase only when there is no tag.
C22_MainPurposeFromTopTag ==
    pc = "done" =>
        LET phrase == IF PurposeSummary = <<>> THEN <<"bokhapjeogin">>
                      ELSE PurposeLabelOf(PurposeSummary[1].k)
        IN StartsWith(response.val,
                      <<"i hwajangpumeun(neun) '">> \o phrase
                      \o <<"'e jungjeomeul dun jepumeuro boimnida.">>)

\* C23: what the generator reads back from the prompt is what was written
\* into it: the skin type, the sequence of good names, the sequence of bad
\* names and the purpose summary.
C23_RoundTripLossless ==
    pc = "done" =>
        /\ ExtractSkinType(RequestPrompt) = request.skin_type
        /\ SplitComma(ExtractGoodNames(RequestPrompt)) = request.good_names
        /\ SplitComma(ExtractBadNames(RequestPrompt)) = request.bad_names
        /\ StrippedOr(Capture(RequestPrompt, PurposeLabel), <<>>)
               = CommonPurposesStr(request.all_purposes)

\* C24: report generation returns, never raises, and the report is the
\* main-purpose sentence, then the good-ingredients sentence iff the good
\* names the generator holds are non-empty, naming the first min(3, n) of
\* them and "deung" (etc.) iff n > 3, then the caution sentence iff the bad
\* names it holds are non-empty, naming the first min(2, m) of them, then a
\* closing sentence, with one space between two sentences.
C24_ReportShape ==
    pc = "done" =>
        LET skin == ExtractSkinType(RequestPrompt)
            good == SplitComma(ExtractGoodNames(RequestPrompt))
            bad == SplitComma(ExtractBadNames(RequestPrompt))
            named(list, k) == Join(SubSeq(list, 1, Min({k, Len(list)})), <<",", " ">>)
            opening == <<"i hwajangpumeun(neun) '">> \o MainPurpose(RequestPrompt)
                       \o <<"'e jungjeomeul dun jepumeuro boimnida.">>
            praise == <<" ", "teukhi ">> \o skin \o <<" pibue joeun ">> \o named(good, 3)
                      \o (IF Len(good) > 3 THEN <<" deung">> ELSE <<>>)
                      \o <<" seongbuni pohamdoeeo itseumnida.">>
            caution == <<" ", "daman, ">> \o named(bad, 2)
                       \o <<" seongbuneun ilbu pibue jageugeul jul su isseuni chamgohaseyo.">>
            closings == {<<" ">> \o GoodClosing(skin), <<" ">> \o MixedClosing,
                         <<" ">> \o PlainClosing}
        IN /\ ~response.raised
           /\ \E closing \in closings :
                 response.val = opening
                                \o (IF ExtractGoodNames(RequestPrompt) # <<>> THEN praise ELSE <<>>)
                                \o (IF ExtractBadNames(RequestPrompt) # <<>> THEN caution ELSE <<>>)
                                \o closing

\* C24 witness: four good names and three bad names were handed over; the
\* report names three good names and "deung", and two bad names.
C24_Witness ==
    /\ pc = "done"
    /\ request.good_names = <<<<"a">>, <<"b">>, <<"b">>, <<"a">>>>
    /\ request.bad_names = <<<<"c">>, <<NoneWord>>, <<"c">>>>
    /\ Contains(response.val, <<" pibue joeun ", "a", ",", " ", "b", ",", " ", "b", " deung",
                                " seongbuni pohamdoeeo itseumnida.">>)
    /\ Contains(response.val, <<"daman, ", "c", ",", " ", NoneWord,
                                " seongbuneun ilbu pibue jageugeul jul su isseuni chamgohaseyo.">>)

(***************************************************************************)
(* The session store: SimpleConversationMemory and ConversationManager.    *)
(***************************************************************************)
HistoryLen == 4     \* memory.messages[-4:]
DefaultTopK == 3    \* top_k: int = 3
AnswerLimit == 300  \* description[:300]
SimilarLimit == 200 \* description[:200]

LastN_FromStart(messages, n) == Take(messages, n)

\* messages[-n:]
LastN(messages, n) ==
    SubSeq(messages, IF Len(messages) > n THEN Len(messages) - n + 1 ELSE 1, Len(messages))

\* SimpleConversationMemory.save_context, with datetime.now() read as now.
SaveContext(messages, input, output, now) ==
    Append(messages, [input |-> input, output |-> output, timestamp |-> now])

GetOrCreateSession_Replacing(sessions, session_id, fresh) ==
    LET id == IF session_id.is_none THEN fresh ELSE session_id.val
    IN [session_id |-> id, chat_sessions |-> DictSet(sessions, id, <<>>)]

GetOrCreateSession_AlwaysFresh(sessions, session_id, fresh) ==
    [session_id |-> fresh,
     chat_sessions |-> IF DictHas(sessions, fresh) THEN sessions
                       ELSE DictSet(sessions, fresh, <<>>)]

\* ConversationManager.get_or_create_session; fresh is what str(uuid.uuid4()) gives.
GetOrCreateSession(sessions, session_id, fresh) ==
    LET id == IF session_id.is_none THEN fresh ELSE session_id.val
    IN [session_id |-> id,
        chat_sessions |-> IF DictHas(sessions, id) THEN sessions
                          ELSE DictSet(sessions, id, <<>>)]

\* ConversationManager.get_session
GetSession(sessions, session_id) == DictGet(sessions, session_id)

(***************************************************************************)
(* Retrieval: supabase_client.search_ingredients and VectorStore.          *)
(***************************************************************************)
\* column.ilike.%query%
Ilike(column, query) == Contains(Lower(column), Lower(query))

\* supabase_client.search_ingredients: the rows whose Korean or English name
\* contains the query, at most limit of them; an exception of the client is
\* logged and the empty list returned.
SearchIngredients(rows, query, limit, client_raises) ==
    IF client_raises THEN <<>>
    ELSE Take(SelectSeq(rows, LAMBDA r : Ilike(r.kor_name, query) \/ Ilike(r.eng_name, query)),
              limit)

\* ', '.join(value) if isinstance(value, list) else (value or '')
JoinedOrStr(value) ==
    IF value.kind = "list" THEN Join(value.val, CommaSpace) ELSE value.val

\* The metadata of the document VectorStore._create_vectorstore makes of an item.
DocOf(item) ==
    LET description == IF item.description = NullValue THEN <<>> ELSE item.description
    IN [ingredient_kor |-> item.kor_name, ingredient_eng |-> item.eng_name,
        description |-> IF Len(description) > SimilarLimit
                        THEN SubSeq(description, 1, SimilarLimit) \o <<"...">>
                        ELSE description,
        purpose |-> JoinedOrStr(item.purpose),
        good_for |-> JoinedOrStr(item.good_for),
        bad_for |-> JoinedOrStr(item.bad_for)]

CreateVectorstore(data) == [i \in 1..Len(data) |-> DocOf(data[i])]

\* What retriever.invoke may return: at most top_k documents of the store,
\* none of them twice, in any order.
DocLists(docs, top_k) ==
    {l \in ListsUpTo(1..Len(docs), Min({top_k, Len(docs)})) :
        \A i, j \in 1..Len(l) : i # j => l[i] # l[j]}

(***************************************************************************)
(* The search orchestrator: IngredientSearch.                              *)
(***************************************************************************)
DatabaseErrorAnswer == <<"deiteobeiseu geomsaek jung oryuga balsaenghaetseumnida.">>
VectorErrorAnswer == <<"bekteo geomsaek jung oryuga balsaenghaetseumnida.">>
SearchErrorAnswer(message) == <<"geomsaek jung oryu: ", message>>
NotSubscriptable == "'NoneType' object is not subscriptable"
NotIterable == "can only join an iterable"

SearchFailure(query, answer, session_id) ==
    [query |-> query, answer |-> answer, similar_ingredients |-> <<>>,
     session_id |-> session_id, chat_history |-> <<>>, success |-> FALSE]

\* The end of both search paths when there are results: the turn is saved
\* and the response carries memory.messages[-4:].
SearchSuccess(query, answer, similar_ingredients, session_id, messages, now) ==
    LET saved == SaveContext(messages, query, answer, now)
    IN [response |-> [query |-> query, answer |-> answer,
                      similar_ingredients |-> similar_ingredients,
                      session_id |-> session_id,
                      chat_history |-> LastN(saved, HistoryLen), success |-> TRUE],
        messages |-> saved]

\* ', '.join(value) of a row field: a str is joined symbol by symbol.
JoinIterable(value) ==
    IF value.kind = "list" THEN Join(value.val, CommaSpace)
    ELSE Join([i \in 1..Len(value.val) |-> <<value.val[i]>>], CommaSpace)

\* The TypeError that formatting a row raises, if any: None[:200] or ', '.join(None).
RowError(r) ==
    IF r.description = NullValue THEN Some(NotSubscriptable)
    ELSE IF r.purpose.kind = "none" \/ r.good_for.kind = "none" \/ r.bad_for.kind = "none"
    THEN Some(NotIterable)
    ELSE None

\* The first TypeError that formatting the results raises, if any.
FormatError(db_results) ==
    LET failing == {i \in 1..Len(db_results) : ~RowError(db_results[i]).is_none}
    IN IF db_results[1].description = NullValue THEN Some(NotSubscriptable)
       ELSE IF failing = {} THEN None
       ELSE RowError(db_results[Min(failing)])

SimilarOfRow(r) ==
    [ingredient_kor |-> r.kor_name, ingredient_eng |-> r.eng_name,
     description |-> Take(r.description, SimilarLimit),
     purpose |-> JoinIterable(r.purpose), good_for |-> JoinIterable(r.good_for),
     bad_for |-> JoinIterable(r.bad_for)]

AnswerAbout(kor_name, description) == kor_name \o <<"e daehan jeongbo: ">> \o description

\* IngredientSearch._search_supabase, given how the call of search_ingredients ended.
SearchSupabase(query, messages, session_id, found, now) ==
    IF found.raised
    THEN Returned([response |-> SearchFailure(query, DatabaseErrorAnswer, session_id),
                   messages |-> messages])
    ELSE IF found.val = <<>>
    THEN Returned([response |-> SearchFailure(query, NotFoundAnswer, session_id),
                   messages |-> messages])
    ELSE IF ~FormatError(found.val).is_none THEN Raised(FormatError(found.val).val)
    ELSE Returned(SearchSuccess(query,
                      AnswerAbout(found.val[1].kor_name,
                                  Take(found.val[1].description, AnswerLimit)),
                      [i \in 1..Len(found.val) |-> SimilarOfRow(found.val[i])],
                      session_id, messages, now))

\* SearchVector saving a turn for a search that found nothing.
SearchVector_SavesNotFound(query, messages, session_id, found, now) ==
    IF found.raised
    THEN Returned([response |-> SearchFailure(query, VectorErrorAnswer, session_id),
                   messages |-> messages])
    ELSE IF found.val = <<>>
    THEN Returned([response |-> SearchFailure(query, NotFoundAnswer, session_id),
                   messages |-> SaveContext(messages, query, NotFoundAnswer, now)])
    ELSE Returned(SearchSuccess(query,
                      AnswerAbout(found.val[1].ingredient_kor, found.val[1].description),
                      found.val, session_id, messages, now))

SearchVector_NoHandler(query, messages, session_id, found, now) ==
    IF found.raised THEN Raised(found.val)
    ELSE IF found.val = <<>>
    THEN Returned([response |-> SearchFailure(query, NotFoundAnswer, session_id),
                   messages |-> messages])
    ELSE Returned(SearchSuccess(query,
                      AnswerAbout(found.val[1].ingredient_kor, found.val[1].description),
                      found.val, session_id, messages, now))

\* IngredientSearch._search_vector, given how the call of vector_store.search ended.
SearchVector(query, messages, session_id, found, now) ==
    IF found.raised
    THEN Returned([response |-> SearchFailure(query, VectorErrorAnswer, session_id),
                   messages |-> messages])
    ELSE IF found.val = <<>>
    THEN Returned([response |-> SearchFailure(query, NotFoundAnswer, session_id),
                   messages |-> messages])
    ELSE Returned(SearchSuccess(query,
                      AnswerAbout(found.val[1].ingredient_kor, found.val[1].description),
                      found.val, session_id, messages, now))

\* IngredientSearch.search: the response, the session store it leaves, and
\* whether a turn was saved.  retrieval is what the retrieval path met:
\* whether its backend raised, with which message, and the rows or documents
\* it produced otherwise.
SearchCall(sessions, query, session_id, fresh, retrieval, now) ==
    LET got == GetOrCreateSession(sessions, session_id, fresh)
        id == got.session_id
        memory == GetSession(got.chat_sessions, id)
        found == IF retrieval.raised THEN Raised(retrieval.message)
                 ELSE Returned(retrieval.val)
        path == IF use_supabase
                THEN SearchSupabase(query, memory, id, Returned(retrieval.val), now)
                ELSE IF ~vector_store.is_none
                THEN SearchVector(query, memory, id, found, now)
                ELSE Returned([response |-> SearchFailure(query, NotFoundAnswer, id),
                               messages |-> memory])
        handled == IF path.raised
                   THEN [response |-> SearchFailure(query, SearchErrorAnswer(path.val), id),
                         messages |-> memory]
                   ELSE path.val
    IN [response |-> Returned(handled.response),
        chat_sessions |-> DictSet(got.chat_sessions, id, handled.messages),
        saved |-> handled.messages # memory]

(***************************************************************************)
(* The service: a system constructed over some records serves searches,    *)
(* analyses and the clearing of sessions, one request at a time.           *)
(***************************************************************************)
MaxTurns == 5       \* most turns saved when searches alone are served
MaxServed == 2      \* most turns saved when every kind of request is served
MaxGenerated == 1   \* most session ids generated

ServedRecord ==
    [kor_name |-> <<"a">>, eng_name |-> <<"x">>, description |-> <<"d">>,
     purpose |-> PyList(<<<<"moisturizer">>>>), good_for |-> PyList(<<Dry>>),
     bad_for |-> PyList(<<>>)]

\* A row of the structured backend whose description column is null.
NullRow ==
    [kor_name |-> <<"q">>, eng_name |-> <<>>, description |-> NullValue,
     purpose |-> PyList(<<>>), good_for |-> PyList(<<>>), bad_for |-> PyList(<<>>)]

Queries == {<<"a">>, <<"q">>}
CallerIds == {<<"s1">>}
UuidPool == {<<"uuid4", i>> : i \in 1..MaxGenerated}
ServedIngredients == {<<<<"a">>>>, <<<<"x">>>>, <<<<"z">>>>}
ServedSkinTypes == {<<"geonseong">>}

\* The three ways the system is put together: over the structured backend,
\* over the flat file with the vector store, and a search without either.
InitServe ==
    /\ use_supabase \in BOOLEAN
    /\ ingredients_data \in IF use_supabase THEN {<<ServedRecord>>, <<ServedRecord, NullRow>>}
                            ELSE {<<ServedRecord>>}
    /\ db_rows = IF use_supabase THEN ingredients_data ELSE <<>>
    /\ kor_index = IF use_supabase THEN None ELSE Some(BuildKorIndex(ingredients_data))
    /\ eng_index = IF use_supabase THEN None ELSE Some(BuildEngIndex(ingredients_data))
    /\ vector_store \in IF use_supabase THEN {Some(CreateVectorstore(ingredients_data))}
                        ELSE {Some(CreateVectorstore(ingredients_data)), None}
    /\ chat_sessions = EmptyDict
    /\ clock = 0
    /\ pc = "idle"
    /\ request = [op |-> "none"]
    /\ response = None
    /\ reports = {}

\* What the retrieval path of a search may meet.
Retrievals(query, top_k) ==
    IF use_supabase
    THEN {[path |-> "supabase", raised |-> client_raises,
           message |-> IF client_raises THEN "connection refused" ELSE "",
           val |-> SearchIngredients(db_rows, query, top_k, client_raises)] :
              client_raises \in BOOLEAN}
    ELSE IF ~vector_store.is_none
    THEN {[path |-> "vector", raised |-> TRUE, message |-> "collection not found",
           val |-> <<>>]}
         \cup {[path |-> "vector", raised |-> FALSE, message |-> "",
                val |-> [i \in 1..Len(l) |-> vector_store.val[l[i]]]] :
                   l \in DocLists(vector_store.val, top_k)}
    ELSE {[path |-> "none", raised |-> FALSE, message |-> "", val |-> <<>>]}

UnusedUuids == {id \in UuidPool : ~DictHas(chat_sessions, id)}

\* A search is served; turns caps the turns saved in all.
Search(turns) ==
    /\ pc = "idle"
    /\ \E query \in Queries,
          session_id \in {None} \cup {Some(id) : id \in CallerIds \cup DictKeys(chat_sessions)} :
          \E fresh \in (IF session_id.is_none THEN UnusedUuids ELSE {<<>>}),
             retrieval \in Retrievals(query, DefaultTopK) :
             LET call == SearchCall(chat_sessions, query, session_id, fresh, retrieval,
                                    clock + 1)
             IN /\ call.saved => clock < turns
                /\ chat_sessions' = call.chat_sessions
                /\ clock' = IF call.saved THEN clock + 1 ELSE clock
                /\ response' = call.response
                /\ request' = [op |-> "search", query |-> query, session_id |-> session_id,
                               top_k |-> DefaultTopK, retrieval |-> retrieval]
    /\ UNCHANGED <<ingredients_data, kor_index, eng_index, use_supabase, db_rows,
                   vector_store, pc, reports>>

ServeAnalyze ==
    /\ pc = "idle"
    /\ \E ingredients \in ServedIngredients, skin_type \in ServedSkinTypes,
          fetch_ok \in IF use_supabase THEN BOOLEAN ELSE {TRUE} :
          LET run == AnalysisRun(DataLoaderGetIngredientsByNames(ingredients, fetch_ok).val,
                                 skin_type)
          IN /\ response' = Returned(run.response)
             /\ reports' = reports \cup run.generated
             /\ request' = [op |-> "analyze", ingredients |-> ingredients,
                            skin_type |-> skin_type]
    /\ kor_index' = IF use_supabase THEN kor_index ELSE KorIndexAfterLookup
    /\ eng_index' = IF use_supabase THEN eng_index ELSE EngIndexAfterLookup
    /\ UNCHANGED <<ingredients_data, use_supabase, db_rows, vector_store, chat_sessions,
                   clock, pc>>

Clear_KeepsLatest(messages) == LastN(messages, 1)

\* SimpleConversationMemory.clear: self.messages.clear()
Clear(messages) == <<>>

\* SimpleConversationMemory.clear on a registered session.
ServeClear ==
    /\ pc = "idle"
    /\ \E id \in DictKeys(chat_sessions) :
          /\ chat_sessions' = DictSet(chat_sessions, id, Clear(GetSession(chat_sessions, id)))
          /\ request' = [op |-> "clear", session_id |-> id]
    /\ response' = None
    /\ UNCHANGED <<ingredients_data, kor_index, eng_index, use_supabase, db_rows,
                   vector_store, clock, pc, reports>>

ServeSearch == Search(MaxServed)

NextServe == ServeSearch \/ ServeAnalyze \/ ServeClear

SpecServe == InitServe /\ [][NextServe]_vars

(***************************************************************************)
(* The chat: the same system serves searches alone, for more turns.        *)
(***************************************************************************)
ChatSearch == Search(MaxTurns)

NextChat == ChatSearch

SpecChat == InitServe /\ [][NextChat]_vars

C8_TurnAppended ==
    [][(request'.op = "search" /\ response'.val.success) =>
          LET id == response'.val.session_id
              before == IF DictHas(chat_sessions, id) THEN DictGet(chat_sessions, id)
                        ELSE <<>>
              after == DictGet(chat_sessions', id)
              n == Len(after)
              m == IF n < 4 THEN n ELSE 4
          IN /\ n = Len(before) + 1
             /\ SubSeq(after, 1, n - 1) = before
             /\ after[n].input = request'.query
             /\ after[n].output = response'.val.answer
             /\ response'.val.chat_history = [i \in 1..m |-> after[n - m + i]]]_vars

\* C8 witness: a successful search on a session that then holds five turns
\* returned four of them, the second turn first.
C8_Witness ==
    /\ request.op = "search"
    /\ response.val.success
    /\ Len(DictGet(chat_sessions, response.val.session_id)) = 5
    /\ Len(response.val.chat_history) = 4
    /\ response.val.chat_history[1] = DictGet(chat_sessions, response.val.session_id)[2]
    /\ response.val.chat_history[4].input = request.query

\* The retrieval of the search met no error and produced nothing.
ZeroResults(req) ==
    req.op = "search" /\ ~req.retrieval.raised /\ req.retrieval.val = <<>>

\* C9: a search whose retrieval yields zero results returns success=false,
\* no similar ingredients, the fixed not-found answer and a session id that
\* is a key of the session store when the call returns: the id the caller
\* supplied, or a generated id that was no key before when none was supplied.
C9_NotFoundKeepsSession ==
    [][ZeroResults(request') =>
          /\ ~response'.raised
          /\ ~response'.val.success
          /\ response'.val.similar_ingredients = <<>>
          /\ response'.val.answer
                = <<"haedang seongbune daehan jeongboreul chajeul su eopseumnida.">>
          /\ DictHas(chat_sessions', response'.val.session_id)
          /\ IF request'.session_id.is_none
             THEN ~DictHas(chat_sessions, response'.val.session_id)
             ELSE response'.val.session_id = request'.session_id.val]_vars

\* C9 witness: a search without a session id found nothing and answered with
\* a session id that is registered.
C9_Witness ==
    /\ ZeroResults(request)
    /\ request.session_id.is_none
    /\ ~response.val.success
    /\ DictHas(chat_sessions, response.val.session_id)
    /\ DictGet(chat_sessions, response.val.session_id) = <<>>

\* C10 (as stated): when the structured-backend search or the vector search
\* raises, the search returns normally with success=false and an answer that
\* carries the message of the exception.
C10_AnswerCarriesMessage ==
    (request.op = "search" /\ request.retrieval.raised) =>
        /\ ~response.raised
        /\ ~response.val.success
        /\ InSeq(request.retrieval.message, response.val.answer)

\* The rows or documents of the search could not be formatted.
FormatFailed(req) ==
    /\ req.op = "search" /\ req.retrieval.path = "supabase"
    /\ req.retrieval.val # <<>>
    /\ \E i \in 1..Len(req.retrieval.val) : req.retrieval.val[i].description = NullValue

\* C10 (amended): no exception escapes a search.  When the vector search
\* raises, the search returns success=false with the fixed vector-error
\* answer; when the client of the structured backend raises, the search
\* returns success=false with the fixed not-found answer; the answer carries
\* the message of an exception only when formatting the results raised it.
C10_FixedErrorAnswer ==
    request.op = "search" =>
        /\ ~response.raised
        /\ request.retrieval.raised =>
              /\ ~response.val.success
              /\ response.val.similar_ingredients = <<>>
              /\ response.val.answer =
                    IF request.retrieval.path = "vector"
                    THEN <<"bekteo geomsaek jung oryuga balsaenghaetseumnida.">>
                    ELSE <<"haedang seongbune daehan jeongboreul chajeul su eopseumnida.">>
        /\ FormatFailed(request) =>
              /\ ~response.val.success
              /\ response.val.answer
                    = <<"geomsaek jung oryu: ", "'NoneType' object is not subscriptable">>

\* C10 witness: the vector search raised and the search answered with the
\* fixed vector-error text, on a session that holds a turn of an earlier search.
C10_Witness ==
    /\ request.op = "search"
    /\ request.retrieval.path = "vector"
    /\ request.retrieval.raised
    /\ ~response.val.success
    /\ response.val.answer = VectorErrorAnswer
    /\ DictGet(chat_sessions, response.val.session_id) # <<>>

(***************************************************************************)
(* Construction of the record store: DataLoader.__init__ probes the        *)
(* structured backend and falls back to the flat file.  The rows of the    *)
(* backend were written by migrate_to_supabase.py from a flat file.        *)
(***************************************************************************)
\* A key the JSON item does not carry.
Absent == [kind |-> "absent", val |-> <<>>]

\* An element of the JSON list that is no object: item.get raises AttributeError.
NotADict == [kind |-> "not a dict"]

\* item.get(key, ""): the str of the item, "" for a key it does not carry.
\* (The items of the model carry a name as a str or not at all.)
GetStr(value) ==
    CASE value.kind = "absent" -> <<>>
      [] value.kind = "none" -> NullValue
      [] OTHER -> value.val

\* item.get(key) or []
GetOrEmptyList(value) ==
    IF value.kind \in {"absent", "none"} \/ value.val = <<>> THEN PyList(<<>>) ELSE value

\* The dict _load_json_data appends for one item.
LoadedRecord(item) ==
    [kor_name |-> GetStr(item.INGR_KOR_NAME), eng_name |-> GetStr(item.INGR_ENG_NAME),
     description |-> GetStr(item.description),
     purpose |-> GetOrEmptyList(item.purpose), good_for |-> GetOrEmptyList(item.good_for),
     bad_for |-> GetOrEmptyList(item.bad_for)]

\* migrate_to_supabase.transform_ingredient
TransformIngredient(item) ==
    LET kor_name == GetStr(item.INGR_KOR_NAME)
        eng_name == GetStr(item.INGR_ENG_NAME)
        description == GetStr(item.description)
    IN [kor_name |-> IF kor_name = <<>> \/ Strip(kor_name) = <<>>
                     THEN (IF eng_name # <<>> THEN eng_name ELSE <<"Unknown">>)
                     ELSE kor_name,
        eng_name |-> eng_name,
        description |-> IF description = NullValue THEN <<>> ELSE description,
        purpose |-> GetOrEmptyList(item.purpose), good_for |-> GetOrEmptyList(item.good_for),
        bad_for |-> GetOrEmptyList(item.bad_for)]

\* The loop of _load_json_data over raw_data[1..n]: the records appended so
\* far, and whether item.get raised.
RECURSIVE ConvertItems(_, _)
ConvertItems(raw_data, n) ==
    IF n = 0 THEN [raised |-> FALSE, data |-> <<>>]
    ELSE LET before == ConvertItems(raw_data, n - 1)
         IN IF before.raised \/ raw_data[n] = NotADict
            THEN [raised |-> TRUE, data |-> before.data]
            ELSE [raised |-> FALSE, data |-> Append(before.data, LoadedRecord(raw_data[n]))]

\* What construction leaves in the fields of the DataLoader.
Loaded(flag, data, kor, eng, exc) ==
    [use_supabase |-> flag, ingredients_data |-> data, kor_index |-> kor, eng_index |-> eng,
     raised |-> exc]

\* _load_json_data leaving the indexes to the first lookup.
LoadJsonData_Lazy(file) ==
    LET converted == ConvertItems(file.items, Len(file.items))
    IN IF file.kind # "json" \/ converted.raised THEN Loaded(FALSE, <<>>, None, None, FALSE)
       ELSE Loaded(FALSE, converted.data, None, None, FALSE)

\* _load_json_data without its exception handlers.
LoadJsonData_NoHandler(file) ==
    LET converted == ConvertItems(file.items, Len(file.items))
    IN IF file.kind # "json" THEN Loaded(FALSE, <<>>, None, None, TRUE)
       ELSE IF converted.raised THEN Loaded(FALSE, converted.data, None, None, TRUE)
       ELSE Loaded(FALSE, converted.data, Some(BuildKorIndex(converted.data)),
                   Some(BuildEngIndex(converted.data)), FALSE)

\* DataLoader._load_json_data: open, json.load, the conversion loop and
\* _build_indexes; every exception ends in an empty record list.
LoadJsonData(file) ==
    LET converted == ConvertItems(file.items, Len(file.items))
    IN IF file.kind # "json" \/ converted.raised THEN Loaded(FALSE, <<>>, None, None, FALSE)
       ELSE Loaded(FALSE, converted.data, Some(BuildKorIndex(converted.data)),
                   Some(BuildEngIndex(converted.data)), FALSE)

\* get_supabase_client without the handler around create_client.
GetSupabaseClient_NoHandler(env) ==
    IF env.credentials
    THEN (IF env.create_client = "ok" THEN Returned(Some("client")) ELSE Raised("Exception"))
    ELSE Returned(None)

\* supabase_client.get_supabase_client on its first call: the client, or None
\* when a credential is missing or create_client raised.
GetSupabaseClient(env) ==
    IF env.credentials
    THEN (IF env.create_client = "ok" THEN Returned(Some("client")) ELSE Returned(None))
    ELSE Returned(None)

\* supabase_client.get_all_ingredients
GetAllIngredients(rows, fetch_ok) == IF fetch_ok THEN rows ELSE <<>>

\* DataLoader.__init__ with _load_data.
DataLoaderInit(env, rows, fetch_ok) ==
    LET client == GetSupabaseClient(env)
    IN IF client.raised THEN Loaded(FALSE, <<>>, None, None, TRUE)
       ELSE IF ~client.val.is_none
       THEN Loaded(TRUE, GetAllIngredients(rows, fetch_ok), None, None, FALSE)
       ELSE LoadJsonData(env.file)

\* DataLoader.get_ingredients_count
GetIngredientsCount(fetch_ok) ==
    IF use_supabase THEN (IF fetch_ok THEN Len(db_rows) ELSE 0) ELSE Len(ingredients_data)

(***************************************************************************)
(* Construction on its own: the store is constructed in some environment   *)
(* and then asked once, for a lookup or for its record count.              *)
(***************************************************************************)
RawItem(kor, eng, description, purpose, good_for, bad_for) ==
    [INGR_KOR_NAME |-> kor, INGR_ENG_NAME |-> eng, description |-> description,
     purpose |-> purpose, good_for |-> good_for, bad_for |-> bad_for]

\* The elements a flat file may list: an item with both names and tag fields
\* of every representation, an item with an English name only, an item with a
\* blank Korean name, an item with no name at all, and an element that is no
\* object.
RawItems ==
    { RawItem(PyStr(<<"a">>), PyStr(<<"x">>), PyStr(<<"d">>),
              PyStr(<<"m", ",", " ", "e">>), PyList(<<Dry>>), PyNone),
      RawItem(Absent, PyStr(<<"x">>), PyNone, PyList(<<<<"m">>>>), PyStr(<<>>), Absent),
      RawItem(PyStr(<<" ">>), Absent, Absent, Absent, Absent, PyList(<<>>)),
      RawItem(Absent, Absent, PyStr(<<"d">>), Absent, PyStr(<<"dry">>), Absent),
      NotADict }

\* The flat file: missing, unreadable, no JSON, or a JSON list.
JsonFile(items) == [kind |-> "json", items |-> items]
DataFiles ==
    {[kind |-> k, items |-> <<>>] : k \in {"missing", "unreadable", "malformed"}}
        \cup {JsonFile(items) : items \in ListsUpTo(RawItems, MaxRecords)}

\* The table of the structured backend: what the migration wrote.
MigratedTables ==
    {[i \in 1..Len(items) |-> TransformIngredient(items[i])] :
        items \in ListsUpTo(RawItems \ {NotADict}, 1)}

LoadNames == {<<>>, <<"a">>, <<"x">>, NotAStr}

InitLoad ==
    /\ ingredients_data = <<>>
    /\ use_supabase = FALSE
    /\ kor_index = None
    /\ eng_index = None
    /\ db_rows \in MigratedTables
    /\ vector_store = None
    /\ chat_sessions = <<>>
    /\ reports = {}
    /\ clock = 0
    /\ pc = "new"
    /\ request \in [op : {"construct"}, names : {<<>>}, credentials : BOOLEAN,
                    create_client : {"ok", "raise"}, fetch_ok : BOOLEAN, file : DataFiles]
    /\ response = None

\* DataLoader(data_file); request.fetch_ok tells whether the table of the
\* structured backend can be queried while the store is constructed.
Construct ==
    /\ pc = "new"
    /\ LET made == DataLoaderInit(request, db_rows, request.fetch_ok)
       IN /\ use_supabase' = made.use_supabase
          /\ ingredients_data' = made.ingredients_data
          /\ kor_index' = made.kor_index
          /\ eng_index' = made.eng_index
          /\ response' = [raised |-> made.raised, val |-> <<"DataLoader">>]
          /\ pc' = IF made.raised THEN "failed" ELSE "loaded"
    /\ UNCHANGED <<db_rows, vector_store, chat_sessions, clock, request, reports>>

\* get_ingredients_by_names on the constructed store
LoadLookup ==
    /\ pc = "loaded"
    /\ \E names \in ListsUpTo(LoadNames, MaxNames), fetch_ok \in BOOLEAN :
          /\ request' = [request EXCEPT !.op = "lookup", !.names = names]
          /\ response' = DataLoaderGetIngredientsByNames(names, fetch_ok)
    /\ kor_index' = IF use_supabase THEN kor_index ELSE KorIndexAfterLookup
    /\ eng_index' = IF use_supabase THEN eng_index ELSE EngIndexAfterLookup
    /\ pc' = "served"
    /\ UNCHANGED <<ingredients_data, use_supabase, db_rows, vector_store, chat_sessions,
                   clock, reports>>

\* get_ingredients_count on the constructed store
LoadCount ==
    /\ pc = "loaded"
    /\ \E fetch_ok \in BOOLEAN :
          response' = Returned(GetIngredientsCount(fetch_ok))
    /\ request' = [request EXCEPT !.op = "count"]
    /\ pc' = "served"
    /\ UNCHANGED <<ingredients_data, kor_index, eng_index, use_supabase, db_rows,
                   vector_store, chat_sessions, clock, reports>>

NextLoad == Construct \/ LoadLookup \/ LoadCount

SpecLoad == InitLoad /\ [][NextLoad]_vars

\* Construction found no usable structured backend.
NoBackend == ~request.credentials \/ request.create_client = "raise"

\* The flat file could not be loaded.
FileFailed ==
    \/ request.file.kind # "json"
    \/ \E i \in 1..Len(request.file.items) : request.file.items[i] = NotADict

\* C12: construction never raises because of the structured backend: when a
\* credential is missing or create_client raises, construction completes with
\* use_supabase false and the records of the flat file loaded (none when the
\* file cannot be loaded), and the caller sees no exception.
C12_ProbeFallsBack ==
    (pc # "new" /\ NoBackend) =>
        /\ pc # "failed"
        /\ ~use_supabase
        /\ ingredients_data =
              IF FileFailed THEN <<>>
              ELSE [i \in 1..Len(request.file.items) |-> LoadedRecord(request.file.items[i])]
        /\ request.op = "construct" => response = Returned(<<"DataLoader">>)

\* C12 witness: create_client raised with both credentials set, and the store
\* was constructed over the two records of the flat file.
C12_Witness ==
    /\ pc = "loaded"
    /\ request.credentials
    /\ request.create_client = "raise"
    /\ ~use_supabase
    /\ Len(ingredients_data) = 2
    /\ response = Returned(<<"DataLoader">>)

C16_SomeNameNonEmpty ==
    pc # "new" =>
        \A i \in 1..Len(ingredients_data) :
            ingredients_data[i].kor_name # <<>> \/ ingredients_data[i].eng_name # <<>>

\* C17: after loading, the purpose, good_for and bad_for of every record of
\* the store are sequences: never null and never a plain string.
C17_TagFieldsAreSequences ==
    pc # "new" =>
        \A i \in 1..Len(ingredients_data) :
            \A field \in {"purpose", "good_for", "bad_for"} :
                ingredients_data[i][field].kind = "list"

(***************************************************************************)
(* The sessions: searches and the clearing of sessions, for as many turns  *)
(* as the chat.                                                            *)
(***************************************************************************)
NextSessions == ChatSearch \/ ServeClear

SpecSessions == InitServe /\ [][NextSessions]_vars

\* C14: clearing a session leaves it with zero messages, so that its last 4
\* turns read right afterwards are the empty sequence; clearing a session
\* that holds no message changes nothing; the session id stays registered
\* and every other session keeps its messages.
C14_ClearEmptiesOneSession ==
    [][request'.op = "clear" =>
          LET id == request'.session_id
          IN /\ DictHas(chat_sessions', id)
             /\ GetSession(chat_sessions', id) = <<>>
             /\ LastN(GetSession(chat_sessions', id), HistoryLen) = <<>>
             /\ DictKeys(chat_sessions') = DictKeys(chat_sessions)
             /\ \A other \in DictKeys(chat_sessions) \ {id} :
                   GetSession(chat_sessions', other) = GetSession(chat_sessions, other)
             /\ GetSession(chat_sessions, id) = <<>> => chat_sessions' = chat_sessions]_vars

\* C14 witness: every turn the model allows has been saved, some of them in
\* the session that was cleared last, which is registered and empty beside
\* another session that still holds its turns.
C14_Witness ==
    /\ request.op = "clear"
    /\ clock = MaxTurns
    /\ DictHas(chat_sessions, request.session_id)
    /\ GetSession(chat_sessions, request.session_id) = <<>>
    /\ \E other \in DictKeys(chat_sessions) \ {request.session_id} :
          /\ GetSession(chat_sessions, other) # <<>>
          /\ Len(GetSession(chat_sessions, other)) < MaxTurns

(***************************************************************************)
(* The routing layer: the /search and /analyze_product endpoints of        *)
(* api/routes.py in front of the system.                                   *)
(***************************************************************************)
BadRequest == 400   \* HTTPException(status_code=400, ...)

HttpException(status_code, detail) == [status_code |-> status_code, detail |-> detail]

Rejected_Never(value) == FALSE

\* "not request.query", "not request.ingredients": an empty str, an empty list
Rejected(value) == value = <<>>

\* POST /search: the request names the query and the session id, and whether
\* the handler went on to call the system.
PostSearch ==
    /\ pc = "idle"
    /\ \E query \in Queries \cup {<<>>},
          session_id \in {None} \cup {Some(id) : id \in CallerIds \cup DictKeys(chat_sessions)} :
          IF Rejected(query)
          THEN /\ response' = Raised(HttpException(BadRequest, <<"geomsaegeoreul imnyeokhaejuseyo">>))
               /\ request' = [op |-> "post_search", query |-> query,
                              session_id |-> session_id, core_invoked |-> FALSE]
               /\ UNCHANGED <<chat_sessions, clock>>
          ELSE \E fresh \in (IF session_id.is_none THEN UnusedUuids ELSE {<<>>}),
                  retrieval \in Retrievals(query, DefaultTopK) :
                  LET call == SearchCall(chat_sessions, query, session_id, fresh, retrieval,
                                         clock + 1)
                  IN /\ call.saved => clock < MaxServed
                     /\ chat_sessions' = call.chat_sessions
                     /\ clock' = IF call.saved THEN clock + 1 ELSE clock
                     /\ response' = call.response
                     /\ request' = [op |-> "post_search", query |-> query,
                                    session_id |-> session_id, core_invoked |-> TRUE]
    /\ UNCHANGED <<ingredients_data, kor_index, eng_index, use_supabase, db_rows,
                   vector_store, pc, reports>>

\* POST /analyze_product
PostAnalyze ==
    /\ pc = "idle"
    /\ \E ingredients \in ServedIngredients \cup {<<>>}, skin_type \in ServedSkinTypes,
          fetch_ok \in IF use_supabase THEN BOOLEAN ELSE {TRUE} :
          IF Rejected(ingredients)
          THEN /\ response' = Raised(HttpException(BadRequest, <<"seongbun riseuteuga piryohamnida">>))
               /\ request' = [op |-> "post_analyze", ingredients |-> ingredients,
                              skin_type |-> skin_type, core_invoked |-> FALSE]
               /\ UNCHANGED <<kor_index, eng_index, reports>>
          ELSE LET run == AnalysisRun(
                              DataLoaderGetIngredientsByNames(ingredients, fetch_ok).val,
                              skin_type)
               IN /\ response' = Returned(run.response)
                  /\ reports' = reports \cup run.generated
                  /\ request' = [op |-> "post_analyze", ingredients |-> ingredients,
                                 skin_type |-> skin_type, core_invoked |-> TRUE]
                  /\ kor_index' = IF use_supabase THEN kor_index ELSE KorIndexAfterLookup
                  /\ eng_index' = IF use_supabase THEN eng_index ELSE EngIndexAfterLookup
    /\ UNCHANGED <<ingredients_data, use_supabase, db_rows, vector_store, chat_sessions,
                   clock, pc>>

NextRoutes == PostSearch \/ PostAnalyze

SpecRoutes == InitServe /\ [][NextRoutes]_vars

\* The request just served was an empty query or an empty ingredients list.
EmptyRequest(req) ==
    \/ req.op = "post_search" /\ req.query = <<>>
    \/ req.op = "post_analyze" /\ req.ingredients = <<>>

\* C15: a /search request with an empty query and an /analyze_product request
\* with an empty ingredients list are answered with a 400 error before the
\* system is called: no session is created or modified, no record lookup is
\* performed and no report is generated.
C15_EmptyRequestRejected ==
    [][EmptyRequest(request') =>
          /\ response'.raised
          /\ response'.val.status_code = 400
          /\ ~request'.core_invoked
          /\ UNCHANGED <<chat_sessions, clock, kor_index, eng_index, ingredients_data,
                         db_rows, reports>>]_vars

\* C15 witness: an empty query that names a session holding a turn is
\* rejected with the 400 error.
C15_Witness ==
    /\ request.op = "post_search"
    /\ request.query = <<>>
    /\ ~request.session_id.is_none
    /\ DictHas(chat_sessions, request.session_id.val)
    /\ GetSession(chat_sessions, request.session_id.val) # <<>>
    /\ response.raised
    /\ response.val.status_code = 400

(***************************************************************************)
(* Concurrent searches: several calls of IngredientSearch.search at once,  *)
(* each a sequence of four steps (get_or_create_session, get_session, the  *)
(* retrieval, and the formatting with save_context) that interleave with   *)
(* the steps of the others.  pc, request and response are per client;      *)
(* request[c] holds the arguments and the local variables of the call.     *)
(***************************************************************************)
MaxClients == 2     \* searches in flight at once

Clients == 1..MaxClients

SessionMessages_Snapshot(sessions, local) == local.seen

\* memory.messages: the list of the memory object the call holds, as it is
\* now (get_session returns the object, not a copy of it).
SessionMessages(sessions, local) == GetSession(sessions, local.memory.val)

InitConcurrent ==
    /\ use_supabase \in BOOLEAN
    /\ ingredients_data = <<ServedRecord>>
    /\ db_rows = IF use_supabase THEN ingredients_data ELSE <<>>
    /\ kor_index = IF use_supabase THEN None ELSE Some(BuildKorIndex(ingredients_data))
    /\ eng_index = IF use_supabase THEN None ELSE Some(BuildEngIndex(ingredients_data))
    /\ vector_store = Some(CreateVectorstore(ingredients_data))
    /\ chat_sessions = EmptyDict
    /\ clock = 0
    /\ pc = [c \in Clients |-> "search"]
    /\ request \in [Clients -> [query : Queries,
                                session_id : {None} \cup {Some(id) : id \in CallerIds},
                                memory : {None}, seen : {<<>>}, found : {None}]]
    /\ response = [c \in Clients |-> None]
    /\ reports = {}

\* session_id = self.conversation_manager.get_or_create_session(session_id)
CallGetOrCreateSession(c) ==
    /\ pc[c] = "search"
    /\ \E fresh \in (IF request[c].session_id.is_none THEN UnusedUuids ELSE {<<>>}) :
          LET got == GetOrCreateSession(chat_sessions, request[c].session_id, fresh)
          IN /\ chat_sessions' = got.chat_sessions
             /\ request' = [request EXCEPT ![c].session_id = Some(got.session_id)]
    /\ pc' = [pc EXCEPT ![c] = "registered"]
    /\ UNCHANGED <<ingredients_data, kor_index, eng_index, use_supabase, db_rows,
                   vector_store, clock, response, reports>>

\* memory = self.conversation_manager.get_session(session_id); seen records
\* the messages the session held at this moment.
CallGetSession(c) ==
    /\ pc[c] = "registered"
    /\ request' = [request EXCEPT
                      ![c].memory = Some(request[c].session_id.val),
                      ![c].seen = GetSession(chat_sessions, request[c].session_id.val)]
    /\ pc' = [pc EXCEPT ![c] = "retrieve"]
    /\ UNCHANGED <<ingredients_data, kor_index, eng_index, use_supabase, db_rows,
                   vector_store, chat_sessions, clock, response, reports>>

\* search_ingredients(query, limit=top_k) or vector_store.search(query, k=top_k)
CallRetrieval(c) ==
    /\ pc[c] = "retrieve"
    /\ \E retrieval \in Retrievals(request[c].query, DefaultTopK) :
          request' = [request EXCEPT ![c].found = Some(retrieval)]
    /\ pc' = [pc EXCEPT ![c] = "save"]
    /\ UNCHANGED <<ingredients_data, kor_index, eng_index, use_supabase, db_rows,
                   vector_store, chat_sessions, clock, response, reports>>

\* The rest of _search_supabase or _search_vector: the results are formatted,
\* save_context appends the turn, and the call returns.
CallSaveContext(c) ==
    /\ pc[c] = "save"
    /\ LET local == request[c]
           id == local.session_id.val
           messages == SessionMessages(chat_sessions, local)
           retrieval == local.found.val
           path == IF use_supabase
                   THEN SearchSupabase(local.query, messages, id, Returned(retrieval.val),
                                       clock + 1)
                   ELSE SearchVector(local.query, messages, id,
                                     IF retrieval.raised THEN Raised(retrieval.message)
                                     ELSE Returned(retrieval.val),
                                     clock + 1)
           handled == IF path.raised
                      THEN [response |-> SearchFailure(local.query,
                                                       SearchErrorAnswer(path.val), id),
                            messages |-> messages]
                      ELSE path.val
       IN /\ chat_sessions' = DictSet(chat_sessions, local.memory.val, handled.messages)
          /\ clock' = IF handled.messages # messages THEN clock + 1 ELSE clock
          /\ response' = [response EXCEPT ![c] = Returned(handled.response)]
    /\ pc' = [pc EXCEPT ![c] = "done"]
    /\ UNCHANGED <<ingredients_data, kor_index, eng_index, use_supabase, db_rows,
                   vector_store, request, reports>>

NextConcurrent ==
    \E c \in Clients :
        \/ CallGetOrCreateSession(c)
        \/ CallGetSession(c)
        \/ CallRetrieval(c)
        \/ CallSaveContext(c)

SpecConcurrent == InitConcurrent /\ [][NextConcurrent]_vars

\* The searches on a session id that have returned with success.
Succeeded(id) ==
    {c \in Clients : /\ pc[c] = "done"
                     /\ response[c].val.success
                     /\ response[c].val.session_id = id}

\* C18: when searches on one session id interleave at the steps
\* get_or_create_session, get_session, retrieval and save_context, no turn is
\* lost: the session stored under an id holds exactly one turn for every
\* successful search on that id that has returned, with its query and answer.
C18_NoLostTurn ==
    \A id \in DictKeys(chat_sessions) :
        LET messages == GetSession(chat_sessions, id)
        IN /\ Len(messages) = Cardinality(Succeeded(id))
           /\ \A c \in Succeeded(id) :
                 \E i \in 1..Len(messages) :
                     /\ messages[i].input = request[c].query
                     /\ messages[i].output = response[c].val.answer

\* C18 witness: two searches on the same id both fetched the session while it
\* held no turn, both succeeded, and the session holds both turns.
C18_Witness ==
    /\ \A c \in {1, 2} : pc[c] = "done" /\ response[c].val.success /\ request[c].seen = <<>>
    /\ request[1].session_id = request[2].session_id
    /\ request[1].query # request[2].query
    /\ Len(GetSession(chat_sessions, request[1].session_id.val)) = 2

\* The retrieval paths the system has: the structured backend when it was
\* selected, the vector store when there is one.
AvailablePaths ==
    (IF use_supabase THEN {"supabase"} ELSE {})
        \cup (IF vector_store.is_none THEN {} ELSE {"vector"})

\* C25: a search consults the structured backend first whenever it is
\* available, the vector store being the fallback, and it returns the
\* not-found response (success=false with the fixed not-found answer) only
\* when every available retrieval path was consulted and returned nothing.
C25_NotFoundAfterEveryPath ==
    [](request.op = "search" =>
          /\ use_supabase => request.retrieval.path = "supabase"
          /\ (~response.val.success /\ response.val.answer = NotFoundAnswer) =>
                \A path \in AvailablePaths :
                    request.retrieval.path = path /\ request.retrieval.val = <<>>)

\* C26: the structured backend is selected at construction only if its
\* credentials are present and it can be queried: when the credentials are
\* present and the backend cannot be queried while the store is constructed,
\* the store is a flat-file store holding the records of the flat file; and
\* the selection made at construction never changes afterwards.
C26_SelectedOnlyIfReachable ==
    /\ [](pc # "new" =>
            /\ use_supabase => (request.credentials /\ request.fetch_ok)
            /\ (request.credentials /\ ~request.fetch_ok) =>
                  /\ ~use_supabase
                  /\ ingredients_data =
                        IF FileFailed THEN <<>>
                        ELSE [i \in 1..Len(request.file.items) |->
                                 LoadedRecord(request.file.items[i])])
    /\ [][pc # "new" => use_supabase' = use_supabase]_vars

(***************************************************************************)
(* Concurrent lookups on a flat-file store: _get_ingredients_from_local    *)
(* and _build_indexes, one step per access to an index attribute.          *)
(* request[c] holds the locals of client c (the name looked up, the        *)
(* position of the build loop, the indexes as the lookup read them) and    *)
(* clock counts the runs of the body of _build_indexes.                    *)
(***************************************************************************)
IndexNames == {<<"a">>, <<"q">>}

InitIndex ==
    /\ \E file \in DataFiles :
          LET made == LoadJsonData(file)
          IN /\ ingredients_data = made.ingredients_data
             /\ kor_index = made.kor_index
             /\ eng_index = made.eng_index
    /\ use_supabase = FALSE
    /\ db_rows = <<>>
    /\ vector_store = None
    /\ chat_sessions = EmptyDict
    /\ clock = 0
    /\ pc = [c \in Clients |-> "idle"]
    /\ request = [c \in Clients |-> [name |-> <<>>, item |-> 0, kor |-> None, eng |-> None]]
    /\ response = [c \in Clients |-> None]
    /\ reports = {}

\* Client c moves to position to; nothing but its locals and the indexes change.
Goes(c, to) ==
    /\ pc' = [pc EXCEPT ![c] = to]
    /\ UNCHANGED <<ingredients_data, use_supabase, db_rows, vector_store, chat_sessions,
                   reports>>

\* Where the build loop goes at position item.
LoopOrLookup(item) == IF item <= Len(ingredients_data) THEN "build_loop" ELSE "read_kor"

\* _get_ingredients_from_local is called: `self._kor_index is None`
LookupCheckKor(c) ==
    /\ pc[c] = "idle"
    /\ \E name \in IndexNames :
          request' = [request EXCEPT ![c] = [name |-> name, item |-> 0, kor |-> None,
                                             eng |-> None]]
    /\ Goes(c, IF kor_index.is_none THEN "build_check_kor" ELSE "check_eng")
    /\ UNCHANGED <<kor_index, eng_index, clock, response>>

\* `or self._eng_index is None`
LookupCheckEng(c) ==
    /\ pc[c] = "check_eng"
    /\ Goes(c, IF eng_index.is_none THEN "build_check_kor" ELSE "read_kor")
    /\ UNCHANGED <<kor_index, eng_index, clock, request, response>>

\* _build_indexes: `if self._kor_index is not None`
BuildCheckKor(c) ==
    /\ pc[c] = "build_check_kor"
    /\ Goes(c, IF kor_index.is_none THEN "set_kor" ELSE "build_check_eng")
    /\ UNCHANGED <<kor_index, eng_index, clock, request, response>>

\* `and self._eng_index is not None: return`
BuildCheckEng(c) ==
    /\ pc[c] = "build_check_eng"
    /\ Goes(c, IF eng_index.is_none THEN "set_kor" ELSE "read_kor")
    /\ UNCHANGED <<kor_index, eng_index, clock, request, response>>

\* self._kor_index = {}
BuildSetKor(c) ==
    /\ pc[c] = "set_kor"
    /\ kor_index' = Some(EmptyDict)
    /\ clock' = clock + 1
    /\ Goes(c, "set_eng")
    /\ UNCHANGED <<eng_index, request, response>>

\* self._eng_index = {}, then the loop over self.ingredients_data: each
\* pass enters the item under its names that are non-empty.
BuildFill(c) ==
    /\ pc[c] \in {"set_eng", "build_loop"}
    /\ IF pc[c] = "set_eng"
       THEN /\ eng_index' = Some(EmptyDict)
            /\ request' = [request EXCEPT ![c].item = 1]
            /\ Goes(c, LoopOrLookup(1))
            /\ UNCHANGED kor_index
       ELSE LET item == ingredients_data[request[c].item]
            IN /\ kor_index' = IF item.kor_name # <<>>
                               THEN Some(DictSet(kor_index.val, IndexKey(item.kor_name), item))
                               ELSE kor_index
               /\ eng_index' = IF item.eng_name # <<>>
                               THEN Some(DictSet(eng_index.val, IndexKey(item.eng_name), item))
                               ELSE eng_index
               /\ request' = [request EXCEPT ![c].item = @ + 1]
               /\ Goes(c, LoopOrLookup(request[c].item + 1))
    /\ UNCHANGED <<clock, response>>

\* The lookup reads self._kor_index
LookupReadKor(c) ==
    /\ pc[c] = "read_kor"
    /\ request' = [request EXCEPT ![c].kor = kor_index]
    /\ Goes(c, "read_eng")
    /\ UNCHANGED <<kor_index, eng_index, clock, response>>

\* and self._eng_index
LookupReadEng(c) ==
    /\ pc[c] = "read_eng"
    /\ request' = [request EXCEPT ![c].eng = eng_index]
    /\ Goes(c, "return")
    /\ UNCHANGED <<kor_index, eng_index, clock, response>>

\* return result_map
LookupReturn(c) ==
    /\ pc[c] = "return"
    /\ response' = [response EXCEPT ![c] =
                        Returned(MatchNames(request[c].kor.val, request[c].eng.val,
                                            <<request[c].name>>, 1))]
    /\ Goes(c, "idle")
    /\ UNCHANGED <<kor_index, eng_index, clock, request>>

NextIndex ==
    \E c \in Clients :
        \/ LookupCheckKor(c) \/ LookupCheckEng(c)
        \/ BuildCheckKor(c) \/ BuildCheckEng(c) \/ BuildSetKor(c) \/ BuildFill(c)
        \/ LookupReadKor(c) \/ LookupReadEng(c) \/ LookupReturn(c)

SpecIndex == InitIndex /\ [][NextIndex]_vars

InitResolvers ==
    /\ ingredients_data \in NamedStores(MaxRecords)
    /\ db_rows = ingredients_data
    /\ use_supabase = FALSE
    /\ kor_index = Some(BuildKorIndex(ingredients_data))
    /\ eng_index = Some(BuildEngIndex(ingredients_data))
    /\ vector_store = None
    /\ chat_sessions = <<>>
    /\ reports = {}
    /\ clock = 0
    /\ pc = "call"
    /\ request \in [names : ListsUpTo(InputNames, MaxNames)]
    /\ response = None

\* DataLoader._get_ingredients_from_local(names)
ResolveLocal ==
    /\ pc = "call"
    /\ response' = GetIngredientsFromLocal(kor_index.val, eng_index.val, request.names)
    /\ pc' = "local"
    /\ UNCHANGED <<ingredients_data, kor_index, eng_index, use_supabase, db_rows,
                   vector_store, chat_sessions, clock, request, reports>>

\* supabase_client.get_ingredients_by_names(names) over a table of the same records
ResolveStructured ==
    /\ pc = "local"
    /\ \E fetch_ok \in BOOLEAN :
          reports' = {[fetch_ok |-> fetch_ok,
                       result |-> SupabaseGetIngredientsByNames(db_rows, fetch_ok,
                                                                request.names)]}
    /\ pc' = "done"
    /\ UNCHANGED <<ingredients_data, kor_index, eng_index, use_supabase, db_rows,
                   vector_store, chat_sessions, clock, request, response>>

NextResolvers == ResolveLocal \/ ResolveStructured

SpecResolvers == InitResolvers /\ [][NextResolvers]_vars

\* C28: over the same sequence of records and the same list of names (each a
\* str), the resolver of the structured store, when its query of the table
\* succeeds, and the flat-file resolver return the same mapping from input
\* name to record.
C28_ResolversAgree ==
    (pc = "done" /\ ~Raises(request.names)) =>
        \A r \in reports : r.fetch_ok => r.result = response

\* C28 witness: both resolvers mapped two names to two different records, the
\* first by an exact hit and the second by a substring hit.
C28_Witness ==
    /\ pc = "done"
    /\ Len(request.names) = 2
    /\ \E r \in reports : r.fetch_ok /\ r.result = response
    /\ Len(response.val) = 2
    /\ response.val[1].v # response.val[2].v
    /\ DictHas(kor_index.val, Normalize(request.names[1]))
    /\ ~DictHas(kor_index.val, Normalize(request.names[2]))
    /\ ~DictHas(eng_index.val, Normalize(request.names[2]))

\* C29: whatever searches are served, no session id is ever removed from the
\* session store, and the messages of a session change only by one turn
\* appended at their end, the turns stored before staying as they were and
\* where they were; a search with a known session id answers with that id
\* and keeps its record; only an explicit clear empties a session.
C29_SessionsOnlyGrow ==
    [][/\ DictKeys(chat_sessions) \subseteq DictKeys(chat_sessions')
       /\ \A id \in DictKeys(chat_sessions) :
             LET before == GetSession(chat_sessions, id)
                 after == GetSession(chat_sessions', id)
             IN \/ after = before
                \/ /\ request'.op = "search"
                   /\ Len(after) = Len(before) + 1
                   /\ SubSeq(after, 1, Len(before)) = before
                \/ /\ request'.op = "clear"
                   /\ request'.session_id = id
                   /\ after = <<>>
       /\ (/\ request'.op = "search"
           /\ ~request'.session_id.is_none
           /\ DictHas(chat_sessions, request'.session_id.val)) =>
              response'.val.session_id = request'.session_id.val]_vars

\* C29 witness: a search with a known session id has appended a third turn
\* to that session, beside another session that was emptied by a clear.
C29_Witness ==
    /\ request.op = "search"
    /\ ~request.session_id.is_none
    /\ response.val.success
    /\ response.val.session_id = request.session_id.val
    /\ Len(GetSession(chat_sessions, request.session_id.val)) = 3
    /\ \E other \in DictKeys(chat_sessions) \ {request.session_id.val} :
          GetSession(chat_sessions, other) = <<>>
    /\ clock = MaxTurns

\* C30: a search that returns success=false, for zero results, no retrieval
\* path or an error of the retrieval, leaves the messages of every session as
\* they were; the one change it may make to the session store is to register
\* an empty session under the session id it answers with, when that id was
\* no key before: the id the caller passed, or a generated one.
C30_FailedSearchKeepsMessages ==
    [][(request'.op = "search" /\ ~response'.val.success) =>
          LET id == response'.val.session_id
          IN \/ chat_sessions' = chat_sessions
             \/ /\ ~DictHas(chat_sessions, id)
                /\ request'.session_id.is_none \/ request'.session_id.val = id
                /\ chat_sessions' = Append(chat_sessions, [k |-> id, v |-> <<>>])]_vars

\* C30 witness: formatting the rows of the structured backend raised in a
\* search on a session that holds two turns, and the session still holds them.
C30_Witness ==
    /\ request.op = "search"
    /\ FormatFailed(request)
    /\ ~response.val.success
    /\ ~request.session_id.is_none
    /\ Len(GetSession(chat_sessions, response.val.session_id)) = 2
====
